---- MODULE Spec2Model ----
(***************************************************************************)
(* Verification model of the second_brain backend: the retrieval router,   *)
(* the branch classifier, the recall orchestrator and the advisory-locked  *)
(* migration runner.  Confidences and thresholds are integer percentages   *)
(* (0.6 is 60).  Python dicts are functions whose DOMAIN is the key set.   *)
(***************************************************************************)
EXTENDS Integers, Sequences, FiniteSets, TLC

VARIABLES
    \* ---- route_retrieval call (retrieval_router.py)
    rt_pc,              \* "idle" | "done"
    rt_request,         \* [mode, provider_override] of the current call
    rt_provider_status, \* provider_status argument (partial dict)
    rt_feature_flags,   \* feature_flags argument (partial dict)
    rt_result,          \* (provider, options) returned
    \* ---- determine_branch call (fallbacks.py)
    db_pc,              \* "idle" | "done"
    db_args,            \* [candidates, threshold, rerank_bypassed, provider]
    db_result,          \* (ContextPacket, NextAction) returned
    \* ---- SchemaManager.detect_drift call (schema_manager.py)
    dd_pc,              \* "idle" | "done"
    dd_args,            \* [expected, applied]
    dd_result,          \* list of DriftItem returned
    \* ---- RecallOrchestrator (agents/recall.py)
    rc_pc,              \* "new" | "idle" | "done"
    rc_self,            \* orchestrator fields set by __init__
    rc_call,            \* arguments of the current run() call, what search found
    rc_result,          \* what run() returned or raised, with what it invoked
    rc_traces,          \* traces the current run() recorded in the collector
    \* ---- MigrationRunner processes sharing one database (migration_runner.py)
    mg_files,           \* migration files on disk
    mg_table,           \* applied-migrations table: version -> checksum or NoRecord
    mg_schema,          \* versions whose forward SQL is in effect in the database
    mg_lock,            \* holder of the advisory lock, or Free
    mg_run,             \* per process: position and locals of its current call
    \* ---- CircuitBreaker shared by concurrent callers (services/pool.py)
    cb_self,            \* breaker fields
    cb_callers,         \* per caller: "idle" | "admitted" | "probe"
    cb_last,            \* the last call made on the breaker
    \* ---- ConversationStore (services/conversation.py)
    cs_self,            \* [max_turns, max_sessions, sessions in insertion order]
    cs_clock,           \* datetime.now() as a counter
    cs_last,            \* the last call made on the store, with the sessions it evicted
    \* ---- Planner.chat (orchestration/planner.py)
    pl_self,            \* [has_collector, traces]
    pl_pc,              \* position of the current chat call
    pl_call,            \* arguments and locals of the current chat call
    pl_result,          \* what the last chat call returned or raised
    \* ---- TransactionManager (services/transaction.py)
    tx_state,           \* TransactionState: [active, depth, savepoints]
    tx_frames,          \* open transaction() blocks, outermost first
    tx_last,            \* how the last block exited
    \* ---- ChunkLifecycleService callers sharing one store (services/lifecycle.py)
    lc_store,           \* chunk id -> stored status, or Missing
    lc_procs,           \* per caller: position and locals of its transition call
    \* ---- ConnectionPool.execute_with_retry over the breaker (services/pool.py)
    cp_run,             \* position and locals of the current execute_with_retry call
    \* ---- concurrent Planner.chat calls over one store (orchestration/planner.py)
    ch_procs,           \* per caller: position and locals of its chat call
    \* ---- ChunkWriteManager jobs over one executor (services/concurrent_writes.py)
    cw_store,           \* content_hash -> stored row, or NoRow
    cw_log,             \* the conflict audit log
    cw_jobs             \* per job: position, data and result of its write_chunk call

routeVars == <<rt_pc, rt_request, rt_provider_status, rt_feature_flags, rt_result>>
branchVars == <<db_pc, db_args, db_result>>
recallVars == <<rc_pc, rc_self, rc_call, rc_result, rc_traces>>
migVars == <<mg_files, mg_table, mg_schema, mg_lock, mg_run>>
driftVars == <<dd_pc, dd_args, dd_result>>
breakerVars == <<cb_self, cb_callers, cb_last>>
storeVars == <<cs_self, cs_clock, cs_last>>
plannerVars == <<pl_self, pl_pc, pl_call, pl_result>>
txVars == <<tx_state, tx_frames, tx_last>>
lifecycleVars == <<lc_store, lc_procs>>
poolVars == <<cp_run>>
chatVars == <<ch_procs>>
writeVars == <<cw_store, cw_log, cw_jobs>>
extraVars == <<poolVars, chatVars, writeVars>>
serviceVars == <<breakerVars, storeVars, plannerVars, txVars, lifecycleVars, extraVars>>
vars == <<routeVars, branchVars, recallVars, migVars, driftVars, serviceVars>>

Null == "null"

\* dict.get(key, default)
Get(d, k, default) == IF k \in DOMAIN d THEN d[k] ELSE default

(***************************************************************************)
(* retrieval_router.py                                                     *)
(***************************************************************************)
AVAILABLE == "available"
UNAVAILABLE == "unavailable"
DEGRADED == "degraded"

Providers == {"mem0", "supabase", "graphiti"}
Modes == {"fast", "accurate", "conversation"}
FlagKeys == {"graphiti_enabled", "mem0_enabled", "supabase_enabled"}

\* list membership
InList(x, list) == \E i \in DOMAIN list : list[i] = x

\* first element of list that is in the set ok, or Null
FirstIn(list, ok) ==
    LET hits == {i \in DOMAIN list : list[i] \in ok}
    IN IF hits = {} THEN Null
       ELSE list[CHOOSE i \in hits : \A j \in hits : i <= j]

check_feature_flags(feature_flags) ==
    (IF Get(feature_flags, "graphiti_enabled", FALSE) THEN <<"graphiti">> ELSE <<>>)
    \o (IF Get(feature_flags, "mem0_enabled", TRUE) THEN <<"mem0">> ELSE <<>>)
    \o (IF Get(feature_flags, "supabase_enabled", TRUE) THEN <<"supabase">> ELSE <<>>)

\* Mutation: missing statuses are not filled in
normalized_provider_status_unfilled(enabled_providers, provider_status) ==
    provider_status

normalized_provider_status(enabled_providers, provider_status) ==
    [p \in DOMAIN provider_status \cup {enabled_providers[i] : i \in DOMAIN enabled_providers} |->
        IF p \in DOMAIN provider_status THEN provider_status[p] ELSE AVAILABLE]

is_provider_eligible(provider, enabled_providers, provider_status) ==
    /\ InList(provider, enabled_providers)
    /\ Get(provider_status, provider, UNAVAILABLE) \in {AVAILABLE, DEGRADED}

\* Mutation: the mem0 rerank-skip policy is dropped
RouteResult_no_skip(provider) ==
    [provider |-> provider, skip_external_rerank |-> FALSE]

RouteResult(provider) ==
    [provider |-> provider, skip_external_rerank |-> (provider = "mem0")]

RouteNone == [provider |-> "none", skip_external_rerank |-> FALSE]

\* Mutation: no fallback pass after the mode's primary choice fails
select_route_no_fallback(mode, available_providers, provider_status) ==
    LET EligibleAvailable(p) ==
            /\ InList(p, available_providers)
            /\ is_provider_eligible(p, available_providers, provider_status)
            /\ Get(provider_status, p, AVAILABLE) = AVAILABLE
        Eligible(p) == is_provider_eligible(p, available_providers, provider_status)
        primary ==
            CASE mode = "conversation" ->
                    IF EligibleAvailable("mem0")
                    THEN [provider |-> "mem0", skip_external_rerank |-> TRUE]
                    ELSE IF EligibleAvailable("supabase")
                    THEN [provider |-> "supabase", skip_external_rerank |-> FALSE]
                    ELSE RouteNone
              [] mode = "fast" ->
                    LET p == FirstIn(<<"mem0", "supabase", "graphiti">>, {q \in Providers : EligibleAvailable(q)})
                    IN IF p = Null THEN RouteNone ELSE RouteResult(p)
              [] mode = "accurate" ->
                    LET p == FirstIn(available_providers, {q \in Providers : EligibleAvailable(q)})
                    IN IF p = Null THEN RouteNone ELSE RouteResult(p)
              [] OTHER -> RouteNone
        fallback == FirstIn(available_providers, {q \in Providers : Eligible(q)})
    IN IF available_providers = <<>> THEN RouteNone
       ELSE IF primary.provider # "none" THEN primary
       ELSE RouteNone

select_route(mode, available_providers, provider_status) ==
    LET EligibleAvailable(p) ==
            /\ InList(p, available_providers)
            /\ is_provider_eligible(p, available_providers, provider_status)
            /\ Get(provider_status, p, AVAILABLE) = AVAILABLE
        Eligible(p) == is_provider_eligible(p, available_providers, provider_status)
        primary ==
            CASE mode = "conversation" ->
                    IF EligibleAvailable("mem0")
                    THEN [provider |-> "mem0", skip_external_rerank |-> TRUE]
                    ELSE IF EligibleAvailable("supabase")
                    THEN [provider |-> "supabase", skip_external_rerank |-> FALSE]
                    ELSE RouteNone
              [] mode = "fast" ->
                    LET p == FirstIn(<<"mem0", "supabase", "graphiti">>, {q \in Providers : EligibleAvailable(q)})
                    IN IF p = Null THEN RouteNone ELSE RouteResult(p)
              [] mode = "accurate" ->
                    LET p == FirstIn(available_providers, {q \in Providers : EligibleAvailable(q)})
                    IN IF p = Null THEN RouteNone ELSE RouteResult(p)
              [] OTHER -> RouteNone
        fallback == FirstIn(available_providers, {q \in Providers : Eligible(q)})
    IN IF available_providers = <<>> THEN RouteNone
       ELSE IF primary.provider # "none" THEN primary
       ELSE IF fallback # Null THEN RouteResult(fallback)
       ELSE RouteNone

\* Mutation: the override is honoured for any eligible provider, degraded included
route_retrieval_eligible_override(request, provider_status, feature_flags) ==
    LET enabled_providers == check_feature_flags(feature_flags)
        normalized_status == normalized_provider_status(enabled_providers, provider_status)
        ov == request.provider_override
    IN IF /\ ov # Null
          /\ is_provider_eligible(ov, enabled_providers, normalized_status)
       THEN [provider |-> ov, skip_external_rerank |-> (ov = "mem0")]
       ELSE select_route(request.mode, enabled_providers, normalized_status)

route_retrieval(request, provider_status, feature_flags) ==
    LET enabled_providers == check_feature_flags(feature_flags)
        normalized_status == normalized_provider_status(enabled_providers, provider_status)
        ov == request.provider_override
    IN IF /\ ov # Null
          /\ is_provider_eligible(ov, enabled_providers, normalized_status)
          /\ Get(normalized_status, ov, AVAILABLE) = AVAILABLE
       THEN RouteResult(ov)
       ELSE select_route(request.mode, enabled_providers, normalized_status)

\* Inputs of a route_retrieval call
Overrides == Providers \cup {Null, "pinecone"}
StatusValues == {AVAILABLE, UNAVAILABLE, DEGRADED}
PartialDicts(keys, values) == UNION {[S -> values] : S \in SUBSET keys}
RouteRequests == [mode : Modes, provider_override : Overrides]

RouteIdle ==
    /\ rt_pc = "idle"
    /\ rt_request = [mode |-> "conversation", provider_override |-> Null]
    /\ rt_provider_status = <<>>
    /\ rt_feature_flags = <<>>
    /\ rt_result = RouteNone

\* A caller invokes route_retrieval(request, provider_status, feature_flags)
RouteCall ==
    /\ rt_pc = "idle"
    /\ \E req \in RouteRequests,
          st \in PartialDicts(Providers, StatusValues),
          ff \in PartialDicts(FlagKeys, BOOLEAN) :
            /\ rt_request' = req
            /\ rt_provider_status' = st
            /\ rt_feature_flags' = ff
            /\ rt_result' = route_retrieval(req, st, ff)
    /\ rt_pc' = "done"
    /\ UNCHANGED <<branchVars, recallVars, migVars, driftVars, serviceVars>>

\* The caller drops the result; the router keeps no state between calls
RouteReturn ==
    /\ rt_pc = "done"
    /\ rt_pc' = "idle"
    /\ rt_request' = [mode |-> "conversation", provider_override |-> Null]
    /\ rt_provider_status' = <<>>
    /\ rt_feature_flags' = <<>>
    /\ rt_result' = RouteNone
    /\ UNCHANGED <<branchVars, recallVars, migVars, driftVars, serviceVars>>

(***************************************************************************)
(* fallbacks.py                                                            *)
(***************************************************************************)
EMPTY_SET == "EMPTY_SET"
LOW_CONFIDENCE == "LOW_CONFIDENCE"
CHANNEL_MISMATCH == "CHANNEL_MISMATCH"
RERANK_BYPASSED == "RERANK_BYPASSED"
SUCCESS == "SUCCESS"
BranchCodes == {EMPTY_SET, LOW_CONFIDENCE, CHANNEL_MISMATCH, RERANK_BYPASSED, SUCCESS}

\* Threshold hard-coded in emit_rerank_bypassed (0.6)
BypassThresholdPct == 60

\* candidates[0].confidence if candidates else 0.0
TopOrZero(candidates) == IF candidates = <<>> THEN 0 ELSE candidates[1].confidence

Emit(candidates, top_confidence, threshold_met, branch, provider, rerank_applied, action, branch_code) ==
    [context_packet |->
        [candidates |-> candidates,
         summary |-> [top_confidence |-> top_confidence,
                      candidate_count |-> Len(candidates),
                      threshold_met |-> threshold_met,
                      branch |-> branch],
         provider |-> provider,
         rerank_applied |-> rerank_applied],
     next_action |-> [action |-> action, branch_code |-> branch_code]]

emit_empty_set(provider) ==
    Emit(<<>>, 0, FALSE, EMPTY_SET, provider, FALSE, "fallback", EMPTY_SET)

emit_low_confidence(candidates, top_confidence, threshold, provider) ==
    Emit(candidates, top_confidence, FALSE, LOW_CONFIDENCE, provider, FALSE,
         "clarify", LOW_CONFIDENCE)

\* Mutation: the escalate action is paired with another branch code
emit_channel_mismatch_wrong_code(candidates, expected_channel, provider) ==
    Emit(candidates, TopOrZero(candidates), FALSE, CHANNEL_MISMATCH, provider, FALSE,
         "escalate", LOW_CONFIDENCE)

emit_channel_mismatch(candidates, expected_channel, provider) ==
    Emit(candidates, TopOrZero(candidates), FALSE, CHANNEL_MISMATCH, provider, FALSE,
         "escalate", CHANNEL_MISMATCH)

\* Mutation: the bypass emitter reports that no rerank was applied
emit_rerank_bypassed_not_applied(candidates, provider) ==
    Emit(candidates, TopOrZero(candidates), TopOrZero(candidates) >= BypassThresholdPct,
         RERANK_BYPASSED, provider, FALSE, "proceed", RERANK_BYPASSED)

emit_rerank_bypassed(candidates, provider) ==
    Emit(candidates, TopOrZero(candidates), TopOrZero(candidates) >= BypassThresholdPct,
         RERANK_BYPASSED, provider, TRUE, "proceed", RERANK_BYPASSED)

emit_success(candidates, provider, rerank_applied) ==
    Emit(candidates, TopOrZero(candidates), TRUE, SUCCESS, provider, rerank_applied,
         "proceed", SUCCESS)

\* Mutation: the rerank-bypass check runs before the low-confidence check
determine_branch_bypass_first(candidates, threshold, rerank_bypassed, provider) ==
    IF candidates = <<>> THEN emit_empty_set(provider)
    ELSE IF rerank_bypassed /\ provider = "mem0"
    THEN emit_rerank_bypassed(candidates, provider)
    ELSE IF candidates[1].confidence < threshold
    THEN emit_low_confidence(candidates, candidates[1].confidence, threshold, provider)
    ELSE emit_success(candidates, provider, rerank_bypassed)

determine_branch(candidates, threshold, rerank_bypassed, provider) ==
    IF candidates = <<>> THEN emit_empty_set(provider)
    ELSE IF candidates[1].confidence < threshold
    THEN emit_low_confidence(candidates, candidates[1].confidence, threshold, provider)
    ELSE IF rerank_bypassed /\ provider = "mem0"
    THEN emit_rerank_bypassed(candidates, provider)
    ELSE emit_success(candidates, provider, rerank_bypassed)

\* Inputs of a determine_branch call
MaxCands == 2
ConfLevels == {0, 40, 60, 90, 100}
Thresholds == {0, 30, 60, 100}
MkCandidates(confs) == [i \in DOMAIN confs |-> [id |-> i, confidence |-> confs[i]]]
CandidateLists ==
    {MkCandidates(confs) : confs \in UNION {[1..n -> ConfLevels] : n \in 0..MaxCands}}
BranchProviders == Providers \cup {"unknown", "none"}

BranchIdle ==
    /\ db_pc = "idle"
    /\ db_args = <<>>
    /\ db_result = <<>>

\* A caller invokes determine_branch(candidates, threshold, rerank_bypassed, provider)
BranchCall ==
    /\ db_pc = "idle"
    /\ rc_pc = "new"
    /\ \E c \in CandidateLists, t \in Thresholds, rb \in BOOLEAN, p \in BranchProviders :
        /\ db_args' = [candidates |-> c, threshold |-> t, rerank_bypassed |-> rb,
                       provider |-> p]
        /\ db_result' = determine_branch(c, t, rb, p)
    /\ db_pc' = "done"
    /\ UNCHANGED <<routeVars, recallVars, migVars, driftVars, serviceVars>>

\* The caller drops the result; the classifier keeps no state between calls
BranchReturn ==
    /\ db_pc = "done"
    /\ db_pc' = "idle"
    /\ db_args' = <<>>
    /\ db_result' = <<>>
    /\ UNCHANGED <<routeVars, recallVars, migVars, driftVars, serviceVars>>

(***************************************************************************)
(* services/voyage.py: VoyageRerankService                                 *)
(***************************************************************************)
Min(a, b) == IF a < b THEN a ELSE b
Max(a, b) == IF a > b THEN a ELSE b

\* list[:k]
Take(list, k) == SubSeq(list, 1, Min(k, Len(list)))

\* insert c into a list sorted by confidence descending, after its equals
RECURSIVE InsertDesc(_, _)
InsertDesc(c, sorted) ==
    IF sorted = <<>> THEN <<c>>
    ELSE IF c.confidence > sorted[1].confidence THEN <<c>> \o sorted
    ELSE <<sorted[1]>> \o InsertDesc(c, Tail(sorted))

\* list.sort(key=confidence, reverse=True): stable, descending
RECURSIVE SortDesc(_)
SortDesc(list) ==
    IF list = <<>> THEN <<>>
    ELSE InsertDesc(list[1], SortDesc(Tail(list)))

\* Confidence added per overlapping query term (0.05)
OverlapBoostPct == 5

\* overlap[i]: number of query terms found in the content of candidate i
mock_rerank(overlap, candidates, top_k) ==
    LET adjusted == [i \in DOMAIN candidates |->
                        [id |-> candidates[i].id,
                         confidence |-> Min(100, candidates[i].confidence
                                                  + overlap[i] * OverlapBoostPct)]]
    IN Take(SortDesc(adjusted), top_k)

\* api: what the Voyage client did: api.failed when the client is unavailable
\* or the call raised, else api.results is the list of [index, relevance_score]
\* (0-based index) it returned
RECURSIVE MapRerankResults(_, _)
MapRerankResults(api_results, candidates) ==
    IF api_results = <<>> THEN <<>>
    ELSE LET r == api_results[1]
             rest == MapRerankResults(Tail(api_results), candidates)
         IN IF r.index >= Len(candidates) THEN rest
            ELSE <<[id |-> candidates[r.index + 1].id,
                    confidence |-> Max(0, Min(100, r.relevance_score))]>> \o rest

\* returns [is_none, list]: is_none models the None result
real_rerank(api, candidates, top_k) ==
    IF api.failed THEN [is_none |-> TRUE, list |-> <<>>]
    ELSE IF api.results = <<>> THEN [is_none |-> TRUE, list |-> <<>>]
    ELSE [is_none |-> FALSE, list |-> MapRerankResults(api.results, candidates)]

\* service: [enabled, use_real_rerank]; env: [overlap, api]
rerank(service, env, candidates, top_k) ==
    IF ~service.enabled \/ candidates = <<>>
    THEN [candidates |-> candidates, rerank_type |-> "none"]
    ELSE IF Len(candidates) = 1
    THEN [candidates |-> candidates, rerank_type |-> "none"]
    ELSE IF service.use_real_rerank
            /\ ~real_rerank(env.api, candidates, top_k).is_none
    THEN [candidates |-> real_rerank(env.api, candidates, top_k).list,
          rerank_type |-> "external"]
    ELSE [candidates |-> mock_rerank(env.overlap, candidates, top_k),
          rerank_type |-> "external"]

(***************************************************************************)
(* deps.py defaults and agents/recall.py                                   *)
(***************************************************************************)
get_feature_flags ==
    [mem0_enabled |-> TRUE, supabase_enabled |-> TRUE, graphiti_enabled |-> FALSE,
     external_rerank_enabled |-> TRUE]

get_provider_status ==
    [mem0 |-> AVAILABLE, supabase |-> AVAILABLE, graphiti |-> UNAVAILABLE]

\* x or default, for a dict x
OrDefault(d, default) == IF DOMAIN d = {} THEN default ELSE d

RecallOrchestrator(rerank_service, feature_flags, provider_status, has_collector) ==
    [rerank_service |-> rerank_service,
     feature_flags |-> OrDefault(feature_flags, get_feature_flags),
     provider_status |-> OrDefault(provider_status, get_provider_status),
     has_collector |-> has_collector]

\* MemoryService._search_fallback: deterministic candidates chosen by the
\* words of the query
Scenarios == {"empty", "low confidence", "degraded", "default"}
search_fallback(scenario) ==
    CASE scenario = "empty" -> <<>>
      [] scenario = "low confidence" -> <<[id |-> 1, confidence |-> 45]>>
      [] scenario = "degraded" -> <<[id |-> 1, confidence |-> 50]>>
      [] OTHER -> <<[id |-> 1, confidence |-> 85], [id |-> 2, confidence |-> 72]>>

\* what the provider adapter does during a search
\*   "ok"                  it returns env.found
\*   "client_unavailable"  the mem0 / Supabase client cannot be loaded
\*   "provider_error"      client.search / client.rpc raises
\*   "embedding_failed"    voyage.embed returns no embedding (Supabase path)
AdapterFailures == {"client_unavailable", "provider_error", "embedding_failed"}

AdapterFails(provider, env) ==
    /\ env.adapter \in AdapterFailures
    /\ env.adapter = "embedding_failed" => provider = "supabase"

\* Mutation: an exception of the provider search call is not caught
search_memories_uncaught(provider, env) ==
    [raised |-> env.fault = "search" \/ env.adapter = "provider_error",
     candidates |-> IF AdapterFails(provider, env) THEN search_fallback(env.scenario)
                    ELSE env.found,
     fallback_reason |-> IF AdapterFails(provider, env) THEN env.adapter ELSE Null]

\* MemoryService.search_memories with a real provider configured: adapter
\* failures are answered from _search_fallback with a fallback_reason;
\* raised: the facade itself fails outside the adapter calls
search_memories(provider, env) ==
    [raised |-> env.fault = "search",
     candidates |-> IF AdapterFails(provider, env) THEN search_fallback(env.scenario)
                    ELSE env.found,
     fallback_reason |-> IF AdapterFails(provider, env) THEN env.adapter ELSE Null]

ForcedId == 0
ForcedLowPct == 40
ForcedBypassPct == 85
ForcedSuccessPct == 90

\* Mutation: an unknown forced branch is answered with CHANNEL_MISMATCH
force_branch_output_unknown_mismatch(candidates, force_branch, provider, skip_external_rerank, threshold) ==
    CASE force_branch = EMPTY_SET -> emit_empty_set(provider)
      [] force_branch = LOW_CONFIDENCE ->
            emit_low_confidence(
                [i \in DOMAIN candidates |->
                    [id |-> candidates[i].id, confidence |-> ForcedLowPct]],
                ForcedLowPct, threshold, provider)
      [] force_branch = CHANNEL_MISMATCH ->
            emit_channel_mismatch(candidates, "test_channel", provider)
      [] force_branch = RERANK_BYPASSED ->
            emit_rerank_bypassed(
                IF candidates # <<>> THEN candidates
                ELSE <<[id |-> ForcedId, confidence |-> ForcedBypassPct]>>,
                provider)
      [] force_branch = SUCCESS ->
            emit_success(
                IF candidates # <<>> THEN candidates
                ELSE <<[id |-> ForcedId, confidence |-> ForcedSuccessPct]>>,
                provider, skip_external_rerank)
      [] OTHER -> emit_channel_mismatch(candidates, "test_channel", provider)

force_branch_output(candidates, force_branch, provider, skip_external_rerank, threshold) ==
    CASE force_branch = EMPTY_SET -> emit_empty_set(provider)
      [] force_branch = LOW_CONFIDENCE ->
            emit_low_confidence(
                [i \in DOMAIN candidates |->
                    [id |-> candidates[i].id, confidence |-> ForcedLowPct]],
                ForcedLowPct, threshold, provider)
      [] force_branch = CHANNEL_MISMATCH ->
            emit_channel_mismatch(candidates, "test_channel", provider)
      [] force_branch = RERANK_BYPASSED ->
            emit_rerank_bypassed(
                IF candidates # <<>> THEN candidates
                ELSE <<[id |-> ForcedId, confidence |-> ForcedBypassPct]>>,
                provider)
      [] force_branch = SUCCESS ->
            emit_success(
                IF candidates # <<>> THEN candidates
                ELSE <<[id |-> ForcedId, confidence |-> ForcedSuccessPct]>>,
                provider, skip_external_rerank)
      [] OTHER -> determine_branch(candidates, threshold, skip_external_rerank, provider)

build_routing_metadata(provider, skip_external_rerank, rerank_metadata, mode) ==
    [selected_provider |-> provider,
     mode |-> mode,
     skip_external_rerank |-> skip_external_rerank,
     rerank_type |-> rerank_metadata.rerank_type,
     rerank_bypass_reason |-> rerank_metadata.rerank_bypass_reason,
     validation_mode |-> FALSE,
     forced_branch |-> Null]

build_trace(context_packet, next_action, provider, rerank_metadata, validation_mode, forced_branch) ==
    [status |-> "ok",
     selected_provider |-> provider,
     branch_code |-> context_packet.summary.branch,
     action |-> next_action.action,
     rerank_type |-> rerank_metadata.rerank_type,
     rerank_bypass_reason |-> rerank_metadata.rerank_bypass_reason,
     validation_mode |-> validation_mode,
     forced_branch |-> forced_branch]

\* the trace of the except block; error_type is type(e).__name__
ErrorTrace(error_type) ==
    [status |-> "error", selected_provider |-> "unknown", branch_code |-> "ERROR",
     action |-> "fallback", rerank_type |-> "none", rerank_bypass_reason |-> Null,
     validation_mode |-> FALSE, forced_branch |-> Null, error_type |-> error_type]

NoResponse == <<>>

\* Mutation: the except block re-raises the exception it caught
RunRaised_reraise(self, request, exc, rerank_called) ==
    [outcome |-> "raise", error |-> exc, code |-> Null,
     retry_hint |-> FALSE, cause |-> Null, context |-> <<>>,
     response |-> NoResponse, rerank_called |-> rerank_called,
     traces |-> IF self.has_collector THEN <<ErrorTrace(exc)>> ELSE <<>>]

\* the except block of run(): exc is the type of the exception caught; it is
\* recorded, then RetrievalError is raised from it
RunRaised(self, request, exc, rerank_called) ==
    [outcome |-> "raise", error |-> "RetrievalError", code |-> "RETRIEVAL_ERROR",
     retry_hint |-> TRUE, cause |-> exc,
     context |-> [original_error_type |-> exc,
                  provider |-> request.provider_override,
                  query_length |-> Len(request.query)],
     response |-> NoResponse, rerank_called |-> rerank_called,
     traces |-> IF self.has_collector THEN <<ErrorTrace(exc)>> ELSE <<>>]

RunReturned(self, packet_action, routing_metadata, trace, rerank_called) ==
    [outcome |-> "return", error |-> Null, code |-> Null, retry_hint |-> FALSE,
     cause |-> Null, context |-> <<>>,
     response |-> [context_packet |-> packet_action.context_packet,
                   next_action |-> packet_action.next_action,
                   routing_metadata |-> routing_metadata],
     rerank_called |-> rerank_called,
     traces |-> IF self.has_collector THEN <<trace>> ELSE <<>>]

\* env: what the collaborators do during this run
\*   fault       "none" | "search" | "rerank": the call that raises
\*   exc         the type of the exception that call raises
\*   found       candidates the provider adapter returns when it works
\*   adapter, scenario   adapter failure and the fallback scenario of the query
\*   overlap, api   behaviour of the rerank service
run(self, request, validation_mode, force_branch, env) ==
    LET route == route_retrieval(request, self.provider_status, self.feature_flags)
        provider == route.provider
        skip_external_rerank == route.skip_external_rerank
        search == search_memories(provider, env)
        found == search.candidates
        external_rerank_enabled ==
            Get(self.feature_flags, "external_rerank_enabled", TRUE)
        call_rerank ==
            ~skip_external_rerank /\ found # <<>> /\ external_rerank_enabled
        reranked == rerank(self.rerank_service, env, found, request.top_k)
        candidates == IF call_rerank THEN reranked.candidates ELSE found
        rerank_metadata ==
            IF call_rerank
            THEN [rerank_type |-> reranked.rerank_type, rerank_bypass_reason |-> Null]
            ELSE IF skip_external_rerank
            THEN [rerank_type |-> "provider-native",
                  rerank_bypass_reason |-> "mem0-default-policy"]
            ELSE IF ~external_rerank_enabled /\ found # <<>>
            THEN [rerank_type |-> "none",
                  rerank_bypass_reason |-> "external_rerank_disabled"]
            ELSE [rerank_type |-> "none", rerank_bypass_reason |-> Null]
        forced == validation_mode /\ force_branch # Null
        packet_action ==
            IF forced
            THEN force_branch_output(candidates, force_branch, provider,
                                     skip_external_rerank, request.threshold)
            ELSE determine_branch(candidates, request.threshold,
                                  skip_external_rerank, provider)
        base_metadata ==
            build_routing_metadata(provider, skip_external_rerank, rerank_metadata,
                                   request.mode)
        routing_metadata ==
            IF forced
            THEN [base_metadata EXCEPT !.validation_mode = TRUE,
                                       !.forced_branch = force_branch]
            ELSE base_metadata
    IN IF provider = "none"
       THEN LET none_meta == [rerank_type |-> "none", rerank_bypass_reason |-> Null]
            IN RunReturned(self, emit_empty_set("none"),
                    build_routing_metadata("none", FALSE, none_meta, request.mode),
                    build_trace(emit_empty_set("none").context_packet,
                                emit_empty_set("none").next_action,
                                "none", none_meta, FALSE, Null),
                    FALSE)
       ELSE IF search.raised THEN RunRaised(self, request, env.exc, FALSE)
       ELSE IF env.fault = "rerank" /\ call_rerank THEN RunRaised(self, request, env.exc, TRUE)
       ELSE RunReturned(self, packet_action, routing_metadata,
                build_trace(packet_action.context_packet, packet_action.next_action,
                            provider, rerank_metadata, validation_mode,
                            IF validation_mode THEN force_branch ELSE Null),
                call_rerank)

\* Inputs of the orchestrator model
RecallFlagDicts == {<<>>} \cup [{"external_rerank_enabled"} -> BOOLEAN]
RecallStatusDicts == {<<>>} \cup [{"mem0", "supabase"} -> {AVAILABLE, UNAVAILABLE}]
RerankServices ==
    {[enabled |-> FALSE, use_real_rerank |-> FALSE],
     [enabled |-> TRUE, use_real_rerank |-> FALSE],
     [enabled |-> TRUE, use_real_rerank |-> TRUE]}
RecallModes == {"conversation", "fast"}
RecallConfLevels == {40, 90}
RecallThresholds == {30, 60}
TopKs == {1, 5}
RecallOverrides == {Null, "supabase"}
\* (validation_mode, force_branch) pairs
ForceArgs ==
    ({TRUE} \X (BranchCodes \cup {Null, "BOGUS"}))
    \cup ({FALSE} \X {Null, SUCCESS, CHANNEL_MISMATCH})
RealScores == {20, 120}
OverlapCounts == {0, 1}
ApiResultLens == {0, 1}
\* request.query as its characters, one query per mode; search_memories
\* answers a blank query before it reaches a provider, so these are not blank
Queries == [conversation |-> <<"r", "u", "s", "t">>, fast |-> <<"a", "i">>]
\* exception types a collaborator raises
ExcTypes == {"RuntimeError", "ProviderError"}
RecallRequests ==
    {[query |-> Queries[m], mode |-> m, provider_override |-> o,
      threshold |-> t, top_k |-> k] :
        m \in RecallModes, o \in RecallOverrides, t \in RecallThresholds, k \in TopKs}
FoundLists ==
    {MkCandidates(confs) : confs \in UNION {[1..n -> RecallConfLevels] : n \in 0..MaxCands}}
NoOverlap(n) == [i \in 1..n |-> 0]
NoApiCall == [failed |-> TRUE, results |-> <<>>]
\* what the rerank collaborators do for a list of n candidates: the term
\* overlaps the mock rerank sees, and what the Voyage client answers
RerankEnvs(service, n) ==
    IF ~service.enabled \/ n <= 1
    THEN {[overlap |-> NoOverlap(n), api |-> NoApiCall]}
    ELSE IF ~service.use_real_rerank
    THEN [overlap : [1..n -> OverlapCounts], api : {NoApiCall}]
    ELSE [overlap : [1..n -> OverlapCounts],
          api : {NoApiCall, [failed |-> FALSE, results |-> <<>>]}]
         \cup
         {[overlap |-> NoOverlap(n), api |-> [failed |-> FALSE, results |-> r]] :
            r \in UNION {[1..k -> [index : 0..n, relevance_score : RealScores]] :
                            k \in ApiResultLens \ {0}}}
\* env of one run: the call that raises (if any), the candidates found, the
\* rerank collaborators
RunEnvs(service) ==
    {[fault |-> "search", exc |-> e, found |-> <<>>, overlap |-> <<>>, api |-> NoApiCall,
      adapter |-> "ok", scenario |-> "default"] : e \in ExcTypes}
    \cup
    {[fault |-> "rerank", exc |-> e, found |-> f, overlap |-> NoOverlap(Len(f)),
      api |-> NoApiCall, adapter |-> "ok", scenario |-> "default"] :
        f \in FoundLists \ {<<>>}, e \in ExcTypes}
    \cup
    UNION {{[fault |-> "none", exc |-> Null, found |-> f, overlap |-> renv.overlap, api |-> renv.api,
             adapter |-> "ok", scenario |-> "default"] :
                renv \in RerankEnvs(service, Len(f))} : f \in FoundLists}
    \cup
    {[fault |-> "none", exc |-> Null, found |-> <<>>,
      overlap |-> NoOverlap(Len(search_fallback(sc))),
      api |-> NoApiCall, adapter |-> a, scenario |-> sc] :
        a \in AdapterFailures, sc \in Scenarios}

RecallParked ==
    /\ rc_pc = "new"
    /\ rc_self = <<>>
    /\ rc_call = <<>>
    /\ rc_result = <<>>
    /\ rc_traces = <<>>

\* RecallOrchestrator.__init__
RecallConstruct ==
    /\ rc_pc = "new"
    /\ db_pc = "idle"
    /\ \E svc \in RerankServices, ff \in RecallFlagDicts, st \in RecallStatusDicts,
          hc \in BOOLEAN :
            rc_self' = RecallOrchestrator(svc, ff, st, hc)
    /\ rc_pc' = "idle"
    /\ UNCHANGED <<rc_call, rc_result, rc_traces, routeVars, branchVars, migVars, driftVars, serviceVars>>

\* RecallOrchestrator.run(request, validation_mode, force_branch)
RecallRun ==
    /\ rc_pc = "idle"
    /\ \E req \in RecallRequests, fa \in ForceArgs, env \in RunEnvs(rc_self.rerank_service) :
        LET result == run(rc_self, req, fa[1], fa[2], env)
        IN /\ rc_call' = [request |-> req, validation_mode |-> fa[1],
                          force_branch |-> fa[2], found |-> search_memories(
                              route_retrieval(req, rc_self.provider_status,
                                              rc_self.feature_flags).provider, env).candidates,
                          fault |-> env.fault, adapter |-> env.adapter, exc |-> env.exc]
           /\ rc_result' = result
           /\ rc_traces' = result.traces
    /\ rc_pc' = "done"
    /\ UNCHANGED <<rc_self, routeVars, branchVars, migVars, driftVars, serviceVars>>

\* The caller takes the response or the exception; run() leaves nothing behind
RecallReturn ==
    /\ rc_pc = "done"
    /\ rc_pc' = "idle"
    /\ rc_call' = <<>>
    /\ rc_result' = <<>>
    /\ rc_traces' = <<>>
    /\ UNCHANGED <<rc_self, routeVars, branchVars, migVars, driftVars, serviceVars>>

\* Repeated runs of one request on one orchestrator. rc_call keeps the
\* request and the answers of the collaborators, rc_result the outcome of the
\* first and of the latest run, rc_traces what the collector holds.
MaxRuns == 2

\* the collaborators of a repeated run: the candidates found have one
\* confidence, the rerank answers are the plain ones, the fallback scenario is
\* the default one
RepeatEnvs(service) ==
    {env \in RunEnvs(service) :
        /\ \A i \in DOMAIN env.found : env.found[i].confidence = env.found[1].confidence
        /\ env.api = NoApiCall
        /\ env.overlap = NoOverlap(Len(env.found))
        /\ env.scenario = "default"}

\* the arguments of run together with the answers of its collaborators
RepeatCalls(service) ==
    {[request |-> req, validation_mode |-> fa[1], force_branch |-> fa[2], env |-> env] :
        req \in RecallRequests, fa \in ForceArgs, env \in RepeatEnvs(service)}

\* what a caller observes of a run
RunOutcome(result) ==
    IF result.outcome = "raise"
    THEN [raised |-> result.error, branch |-> Null, action |-> Null,
          provider |-> Null, rerank_type |-> Null]
    ELSE [raised |-> Null,
          branch |-> result.response.context_packet.summary.branch,
          action |-> result.response.next_action.action,
          provider |-> result.response.routing_metadata.selected_provider,
          rerank_type |-> result.response.routing_metadata.rerank_type]

\* Mutation: a run that fails or finds nothing marks the provider unavailable
RepeatRun_marks_provider ==
    /\ rc_pc \in {"idle", "ran"}
    /\ rc_pc = "ran" => rc_result.runs < MaxRuns
    /\ \E call \in (IF rc_pc = "ran" THEN {rc_call} ELSE RepeatCalls(rc_self.rerank_service)) :
        LET result == run(rc_self, call.request, call.validation_mode,
                          call.force_branch, call.env)
            routed == route_retrieval(call.request, rc_self.provider_status,
                                      rc_self.feature_flags).provider
            status == rc_self.provider_status
        IN /\ rc_call' = call
           /\ rc_result' =
                [first |-> IF rc_pc = "ran" THEN rc_result.first ELSE RunOutcome(result),
                 last |-> RunOutcome(result),
                 runs |-> IF rc_pc = "ran" THEN rc_result.runs + 1 ELSE 1]
           /\ rc_traces' = rc_traces \o result.traces
           /\ rc_self' =
                IF routed # "none"
                   /\ (result.outcome = "raise" \/ RunOutcome(result).branch = EMPTY_SET)
                THEN [rc_self EXCEPT !.provider_status =
                        [q \in DOMAIN status \cup {routed} |->
                            IF q = routed THEN UNAVAILABLE ELSE status[q]]]
                ELSE rc_self
    /\ rc_pc' = "ran"
    /\ UNCHANGED <<routeVars, branchVars, migVars, driftVars, serviceVars>>

\* RecallOrchestrator.run, called for the first time or once more with the
\* same arguments while the collaborators answer as before; run assigns no
\* attribute of self and only appends to the collector
RepeatRun ==
    /\ rc_pc \in {"idle", "ran"}
    /\ rc_pc = "ran" => rc_result.runs < MaxRuns
    /\ \E call \in (IF rc_pc = "ran" THEN {rc_call} ELSE RepeatCalls(rc_self.rerank_service)) :
        LET result == run(rc_self, call.request, call.validation_mode,
                          call.force_branch, call.env)
        IN /\ rc_call' = call
           /\ rc_result' =
                [first |-> IF rc_pc = "ran" THEN rc_result.first ELSE RunOutcome(result),
                 last |-> RunOutcome(result),
                 runs |-> IF rc_pc = "ran" THEN rc_result.runs + 1 ELSE 1]
           /\ rc_traces' = rc_traces \o result.traces
           /\ rc_self' = rc_self
    /\ rc_pc' = "ran"
    /\ UNCHANGED <<routeVars, branchVars, migVars, driftVars, serviceVars>>

\* The caller ends the series and clears the collector
RepeatReturn ==
    /\ rc_pc = "ran"
    /\ rc_pc' = "idle"
    /\ rc_call' = <<>>
    /\ rc_result' = <<>>
    /\ rc_traces' = <<>>
    /\ UNCHANGED <<rc_self, routeVars, branchVars, migVars, driftVars, serviceVars>>

(***************************************************************************)
(* services/schema_manager.py                                              *)
(***************************************************************************)
MaxVersion == 2
Versions == 1..MaxVersion
\* checksum of the file content on disk now, and of an earlier content
CurrentSum == "c1"
EarlierSum == "c0"
NoRecord == "none"

\* a migration file: its version prefix, SHA-256 of its bytes, and whether it
\* has a non-empty '-- rollback:' section
MigrationFiles == [version : Versions, checksum : {CurrentSum}, has_rollback : BOOLEAN]

RECURSIVE SortByVersion(_)
SortByVersion(infos) ==
    IF infos = {} THEN <<>>
    ELSE LET first == CHOOSE m \in infos : \A n \in infos : m.version <= n.version
         IN <<first>> \o SortByVersion(infos \ {first})

\* returns [error, list]: error is Null or the SchemaError code raised
scan_migrations(files) ==
    IF \E f, g \in files : f # g /\ f.version = g.version
    THEN [error |-> "DUPLICATE_VERSION", list |-> <<>>]
    ELSE [error |-> Null,
          list |-> SortByVersion({[version |-> f.version, checksum |-> f.checksum] :
                                    f \in files})]

\* keys of {r.version: r for r in list}, in dict (first insertion) order
RECURSIVE KeyOrder(_)
KeyOrder(list) ==
    IF list = <<>> THEN <<>>
    ELSE LET init == KeyOrder(SubSeq(list, 1, Len(list) - 1))
             v == list[Len(list)].version
         IN IF InList(v, init) THEN init ELSE Append(init, v)

\* {r.version: r for r in list}[v]: the last entry of that version wins
ByVersion(list, v) ==
    list[CHOOSE i \in DOMAIN list :
            /\ list[i].version = v
            /\ \A j \in DOMAIN list : list[j].version = v => j <= i]

HasVersion(list, v) == \E i \in DOMAIN list : list[i].version = v

DriftItem(version, drift_type) == [version |-> version, drift_type |-> drift_type]

DriftItems(versions, drift_type) ==
    [i \in DOMAIN versions |-> DriftItem(versions[i], drift_type)]

\* Mutation: records without a migration file are not reported
detect_drift_no_unexpected(expected, applied) ==
    LET ekeys == KeyOrder(expected)
        IsModified(v) == /\ HasVersion(applied, v)
                         /\ ByVersion(expected, v).checksum # ByVersion(applied, v).checksum
        IsMissing(v) == ~HasVersion(applied, v)
    IN DriftItems(SelectSeq(ekeys, IsModified), "modified")
       \o DriftItems(SelectSeq(ekeys, IsMissing), "missing")

detect_drift(expected, applied) ==
    LET ekeys == KeyOrder(expected)
        akeys == KeyOrder(applied)
        IsModified(v) == /\ HasVersion(applied, v)
                         /\ ByVersion(expected, v).checksum # ByVersion(applied, v).checksum
        IsUnexpected(v) == ~HasVersion(expected, v)
        IsMissing(v) == ~HasVersion(applied, v)
    IN DriftItems(SelectSeq(ekeys, IsModified), "modified")
       \o DriftItems(SelectSeq(akeys, IsUnexpected), "unexpected")
       \o DriftItems(SelectSeq(ekeys, IsMissing), "missing")

IsCritical(item) == item.drift_type \in {"modified", "unexpected"}

\* Mutation: only modified files count as critical drift
validate_schema_integrity_modified_only(files, applied) ==
    LET scan == scan_migrations(files)
        IsMod(item) == item.drift_type = "modified"
    IN IF scan.error # Null THEN scan.error
       ELSE IF SelectSeq(detect_drift(scan.list, applied), IsMod) # <<>>
       THEN "SCHEMA_DRIFT"
       ELSE Null

\* returns Null, or the code of the SchemaError raised
validate_schema_integrity(files, applied) ==
    LET scan == scan_migrations(files)
    IN IF scan.error # Null THEN scan.error
       ELSE IF SelectSeq(detect_drift(scan.list, applied), IsCritical) # <<>>
       THEN "SCHEMA_DRIFT"
       ELSE Null

\* Inputs of a detect_drift call: the scanned files and the applied records,
\* in any order, no version twice (scan_migrations rejects duplicate
\* versions, the applied table is keyed by version)
DriftSums == {EarlierSum, CurrentSum}
VersionLists ==
    {l \in UNION {[1..n -> [version : Versions, checksum : DriftSums]] : n \in 0..MaxVersion} :
        \A i, j \in DOMAIN l : i # j => l[i].version # l[j].version}

DriftIdle ==
    /\ dd_pc = "idle"
    /\ dd_args = <<>>
    /\ dd_result = <<>>

\* A caller invokes detect_drift(expected, applied)
DriftCall ==
    /\ dd_pc = "idle"
    /\ \E e \in VersionLists, a \in VersionLists :
        /\ dd_args' = [expected |-> e, applied |-> a]
        /\ dd_result' = detect_drift(e, a)
    /\ dd_pc' = "done"
    /\ UNCHANGED <<routeVars, branchVars, recallVars, migVars, serviceVars>>

DriftReturn ==
    /\ dd_pc = "done"
    /\ dd_pc' = "idle"
    /\ dd_args' = <<>>
    /\ dd_result' = <<>>
    /\ UNCHANGED <<routeVars, branchVars, recallVars, migVars, serviceVars>>

(***************************************************************************)
(* services/migration_runner.py                                            *)
(***************************************************************************)
Procs == {"p1", "p2"}
Free == "free"

\* MigrationExecutor.acquire_advisory_lock: a try-lock on the shared key
acquire_advisory_lock(lock, p) ==
    IF lock = Free THEN [granted |-> TRUE, lock |-> p]
    ELSE [granted |-> FALSE, lock |-> lock]

\* MigrationExecutor.release_advisory_lock
release_advisory_lock(lock, p) == IF lock = p THEN Free ELSE lock

\* MigrationExecutor.get_applied_migrations: the records, by version
get_applied_migrations(table) ==
    SortByVersion({[version |-> v, checksum |-> table[v]] :
                    v \in {w \in Versions : table[w] # NoRecord}})

\* returns [error, list]
get_pending(files, applied) ==
    LET scan == scan_migrations(files)
        NotApplied(m) == ~HasVersion(applied, m.version)
    IN [error |-> scan.error, list |-> SelectSeq(scan.list, NotApplied)]

\* max(applied, key=version)
LastApplied(applied) ==
    applied[CHOOSE i \in DOMAIN applied :
                \A j \in DOMAIN applied : applied[j].version <= applied[i].version]

\* _extract_rollback_sql(file text) is not None
HasRollbackSql(files, version) ==
    \E f \in files : f.version = version /\ f.has_rollback

IdleRun ==
    [pc |-> "idle", op |-> "none", lock_acquired |-> FALSE, applied |-> <<>>,
     pending |-> <<>>, applied_list |-> <<>>, last |-> 0,
     executed |-> <<>>, recorded |-> <<>>, removed |-> <<>>, released |-> FALSE,
     has_read |-> FALSE, integrity |-> "unchecked", outcome |-> "none", error |-> Null,
     failed |-> 0]

\* the call returns a MigrationResult
Returns(r, outcome) == [r EXCEPT !.pc = "finally", !.outcome = outcome]
\* the call raises; code is the SchemaError code or the executor's error
Raises(r, code) == [r EXCEPT !.pc = "finally", !.outcome = "raised", !.error = code]

ExecutorError == "EXECUTOR_ERROR"

\* Mutation: rollback_last runs without taking the advisory lock
MigCall_rollback_unlocked(p) ==
    /\ mg_run[p].pc = "idle"
    /\ \E op \in {"apply", "dry_run", "rollback"} :
        mg_run' = [mg_run EXCEPT ![p] =
            [IdleRun EXCEPT !.op = op,
                            !.pc = CASE op = "dry_run" -> "dry_read"
                                     [] op = "rollback" -> "read"
                                     [] OTHER -> "acquire"]]
    /\ UNCHANGED <<mg_files, mg_table, mg_schema, mg_lock>>

\* apply_pending(dry_run) or rollback_last() is called
MigCall(p) ==
    /\ mg_run[p].pc = "idle"
    /\ \E op \in {"apply", "dry_run", "rollback"} :
        mg_run' = [mg_run EXCEPT ![p] =
            [IdleRun EXCEPT !.op = op,
                            !.pc = IF op = "dry_run" THEN "dry_read" ELSE "acquire"]]
    /\ UNCHANGED <<mg_files, mg_table, mg_schema, mg_lock>>

\* Mutation: the result of acquire_advisory_lock is not checked
MigAcquire_unchecked(p) ==
    /\ mg_run[p].pc = "acquire"
    /\ LET r == acquire_advisory_lock(mg_lock, p)
       IN /\ mg_lock' = r.lock
          /\ mg_run' = [mg_run EXCEPT ![p].lock_acquired = r.granted, ![p].pc = "read"]
    /\ UNCHANGED <<mg_files, mg_table, mg_schema>>

\* lock_acquired = executor.acquire_advisory_lock(MIGRATION_LOCK_KEY)
MigAcquire(p) ==
    /\ mg_run[p].pc = "acquire"
    /\ \/ LET r == acquire_advisory_lock(mg_lock, p)
          IN /\ mg_lock' = r.lock
             /\ mg_run' = [mg_run EXCEPT ![p] =
                    IF r.granted
                    THEN [mg_run[p] EXCEPT !.lock_acquired = TRUE, !.pc = "read"]
                    ELSE Returns(mg_run[p], "lock_failed")]
       \/ /\ mg_run' = [mg_run EXCEPT ![p] = Raises(mg_run[p], ExecutorError)]
          /\ UNCHANGED mg_lock
    /\ UNCHANGED <<mg_files, mg_table, mg_schema>>

\* applied = executor.get_applied_migrations()
MigRead(p) ==
    /\ mg_run[p].pc = "read"
    /\ \/ mg_run' = [mg_run EXCEPT ![p].applied = get_applied_migrations(mg_table),
                                   ![p].has_read = TRUE,
                                   ![p].pc = IF mg_run[p].op = "apply"
                                             THEN "validate" ELSE "rb_select"]
       \/ mg_run' = [mg_run EXCEPT ![p] = Raises(mg_run[p], ExecutorError)]
    /\ UNCHANGED <<mg_files, mg_table, mg_schema, mg_lock>>

\* Mutation: drift validation is skipped
MigValidate_skipped(p) ==
    /\ mg_run[p].pc = "validate"
    /\ mg_run' = [mg_run EXCEPT ![p].pc = "pending"]
    /\ UNCHANGED <<mg_files, mg_table, mg_schema, mg_lock>>

\* schema_manager.validate_schema_integrity(applied)
MigValidate(p) ==
    /\ mg_run[p].pc = "validate"
    /\ LET code == validate_schema_integrity(mg_files, mg_run[p].applied)
       IN mg_run' = [mg_run EXCEPT ![p] =
            IF code # Null THEN Raises([mg_run[p] EXCEPT !.integrity = code], code)
            ELSE [mg_run[p] EXCEPT !.integrity = "ok", !.pc = "pending"]]
    /\ UNCHANGED <<mg_files, mg_table, mg_schema, mg_lock>>

\* pending = self.get_pending(applied)
MigPending(p) ==
    /\ mg_run[p].pc = "pending"
    /\ LET pend == get_pending(mg_files, mg_run[p].applied)
       IN mg_run' = [mg_run EXCEPT ![p] =
            IF pend.error # Null THEN Raises(mg_run[p], pend.error)
            ELSE IF pend.list = <<>> THEN Returns(mg_run[p], "success")
            ELSE [mg_run[p] EXCEPT !.pending = pend.list, !.pc = "exec"]]
    /\ UNCHANGED <<mg_files, mg_table, mg_schema, mg_lock>>

\* Mutation: a migration whose SQL failed is recorded like a successful one
MigExec_record_failed(p) ==
    /\ mg_run[p].pc = "exec"
    /\ LET m == mg_run[p].pending[1]
       IN \/ /\ mg_schema' = mg_schema \cup {m.version}
             /\ mg_run' = [mg_run EXCEPT
                    ![p].executed = Append(@, [kind |-> "forward", version |-> m.version]),
                    ![p].pc = "record"]
          \/ /\ mg_run' = [mg_run EXCEPT ![p].failed = m.version, ![p].pc = "record"]
             /\ UNCHANGED mg_schema
    /\ UNCHANGED <<mg_files, mg_table, mg_lock>>

\* executor.execute_sql(forward_sql) for the next pending migration; failed is
\* the version whose execute_sql raised (0: none)
MigExec(p) ==
    /\ mg_run[p].pc = "exec"
    /\ LET m == mg_run[p].pending[1]
       IN \/ /\ mg_schema' = mg_schema \cup {m.version}
             /\ mg_run' = [mg_run EXCEPT
                    ![p].executed = Append(@, [kind |-> "forward", version |-> m.version]),
                    ![p].pc = "record"]
          \/ /\ mg_run' = [mg_run EXCEPT ![p] =
                    [Returns(mg_run[p], "failure") EXCEPT !.failed = m.version]]
             /\ UNCHANGED mg_schema
    /\ UNCHANGED <<mg_files, mg_table, mg_lock>>

\* executor.record_migration(migration, elapsed_ms); applied_list.append
MigRecord(p) ==
    /\ mg_run[p].pc = "record"
    /\ LET m == mg_run[p].pending[1]
           rest == Tail(mg_run[p].pending)
       IN \/ /\ mg_table' = [mg_table EXCEPT ![m.version] = m.checksum]
             /\ mg_run' = [mg_run EXCEPT ![p] =
                    LET nxt == [mg_run[p] EXCEPT !.recorded = Append(@, m.version),
                                                 !.applied_list = Append(@, m.version),
                                                 !.pending = rest]
                    IN IF rest = <<>> THEN Returns(nxt, "success")
                       ELSE [nxt EXCEPT !.pc = "exec"]]
          \/ /\ mg_run' = [mg_run EXCEPT ![p] = Raises(mg_run[p], ExecutorError)]
             /\ UNCHANGED mg_table
    /\ UNCHANGED <<mg_files, mg_schema, mg_lock>>

\* rollback_last: pick the last applied migration and its rollback SQL
MigRollbackSelect(p) ==
    /\ mg_run[p].pc = "rb_select"
    /\ LET applied == mg_run[p].applied
           scan == scan_migrations(mg_files)
       IN mg_run' = [mg_run EXCEPT ![p] =
            IF applied = <<>> THEN Raises(mg_run[p], "NO_MIGRATIONS")
            ELSE IF scan.error # Null THEN Raises(mg_run[p], scan.error)
            ELSE IF ~HasVersion(scan.list, LastApplied(applied).version)
            THEN Raises(mg_run[p], "MIGRATION_FILE_NOT_FOUND")
            ELSE IF ~HasRollbackSql(mg_files, LastApplied(applied).version)
            THEN Raises(mg_run[p], "NO_ROLLBACK_SQL")
            ELSE [mg_run[p] EXCEPT !.last = LastApplied(applied).version,
                                   !.pc = "rb_exec"]]
    /\ UNCHANGED <<mg_files, mg_table, mg_schema, mg_lock>>

\* Mutation: a failure of the rollback SQL is ignored
MigRollbackExec_ignore_failure(p) ==
    /\ mg_run[p].pc = "rb_exec"
    /\ \/ /\ mg_schema' = mg_schema \ {mg_run[p].last}
          /\ mg_run' = [mg_run EXCEPT
                ![p].executed = Append(@, [kind |-> "rollback", version |-> mg_run[p].last]),
                ![p].pc = "rb_remove"]
       \/ /\ mg_run' = [mg_run EXCEPT ![p].pc = "rb_remove"]
          /\ UNCHANGED mg_schema
    /\ UNCHANGED <<mg_files, mg_table, mg_lock>>

\* executor.execute_sql(rollback_sql)
MigRollbackExec(p) ==
    /\ mg_run[p].pc = "rb_exec"
    /\ \/ /\ mg_schema' = mg_schema \ {mg_run[p].last}
          /\ mg_run' = [mg_run EXCEPT
                ![p].executed = Append(@, [kind |-> "rollback", version |-> mg_run[p].last]),
                ![p].pc = "rb_remove"]
       \/ /\ mg_run' = [mg_run EXCEPT ![p] = Raises(mg_run[p], ExecutorError)]
          /\ UNCHANGED mg_schema
    /\ UNCHANGED <<mg_files, mg_table, mg_lock>>

\* executor.remove_migration_record(last.version)
MigRollbackRemove(p) ==
    /\ mg_run[p].pc = "rb_remove"
    /\ \/ /\ mg_table' = [mg_table EXCEPT ![mg_run[p].last] = NoRecord]
          /\ mg_run' = [mg_run EXCEPT ![p] =
                Returns([mg_run[p] EXCEPT !.removed = Append(@, mg_run[p].last)],
                        "success")]
       \/ /\ mg_run' = [mg_run EXCEPT ![p] = Raises(mg_run[p], ExecutorError)]
          /\ UNCHANGED mg_table
    /\ UNCHANGED <<mg_files, mg_schema, mg_lock>>

\* Mutation: the finally block is missing
MigFinally_no_release(p) ==
    /\ mg_run[p].pc = "finally"
    /\ mg_run' = [mg_run EXCEPT ![p].pc = "done"]
    /\ UNCHANGED <<mg_files, mg_table, mg_schema, mg_lock>>

\* finally: if lock_acquired: executor.release_advisory_lock(MIGRATION_LOCK_KEY)
MigFinally(p) ==
    /\ mg_run[p].pc = "finally"
    /\ IF mg_run[p].lock_acquired
       THEN /\ mg_lock' = release_advisory_lock(mg_lock, p)
            /\ mg_run' = [mg_run EXCEPT ![p].released = TRUE, ![p].pc = "done"]
       ELSE /\ mg_run' = [mg_run EXCEPT ![p].pc = "done"]
            /\ UNCHANGED mg_lock
    /\ UNCHANGED <<mg_files, mg_table, mg_schema>>

\* _dry_run: applied = executor.get_applied_migrations()
MigDryRead(p) ==
    /\ mg_run[p].pc = "dry_read"
    /\ \/ mg_run' = [mg_run EXCEPT ![p].applied = get_applied_migrations(mg_table),
                                   ![p].has_read = TRUE,
                                   ![p].pc = "dry_pending"]
       \/ mg_run' = [mg_run EXCEPT ![p].pc = "done", ![p].outcome = "raised",
                                   ![p].error = ExecutorError]
    /\ UNCHANGED <<mg_files, mg_table, mg_schema, mg_lock>>

\* Mutation: the dry run executes the forward SQL of what it reports
MigDryPending_executes(p) ==
    /\ mg_run[p].pc = "dry_pending"
    /\ LET pend == get_pending(mg_files, mg_run[p].applied)
           versions == [i \in DOMAIN pend.list |-> pend.list[i].version]
       IN /\ mg_run' = [mg_run EXCEPT ![p] =
                IF pend.error # Null
                THEN [mg_run[p] EXCEPT !.pc = "done", !.outcome = "raised",
                                       !.error = pend.error]
                ELSE [mg_run[p] EXCEPT !.pc = "done", !.outcome = "success",
                                       !.applied_list = versions,
                                       !.executed = [i \in DOMAIN versions |->
                                            [kind |-> "forward", version |-> versions[i]]]]]
          /\ mg_schema' = mg_schema \cup {versions[i] : i \in DOMAIN versions}
    /\ UNCHANGED <<mg_files, mg_table, mg_lock>>

\* _dry_run: pending = self.get_pending(applied); return the report
MigDryPending(p) ==
    /\ mg_run[p].pc = "dry_pending"
    /\ LET pend == get_pending(mg_files, mg_run[p].applied)
       IN mg_run' = [mg_run EXCEPT ![p] =
            IF pend.error # Null
            THEN [mg_run[p] EXCEPT !.pc = "done", !.outcome = "raised",
                                   !.error = pend.error]
            ELSE [mg_run[p] EXCEPT !.pc = "done", !.outcome = "success",
                                   !.applied_list = [i \in DOMAIN pend.list |-> pend.list[i].version]]]
    /\ UNCHANGED <<mg_files, mg_table, mg_schema, mg_lock>>

\* the call has returned or raised; the process may call again
MigReturn(p) ==
    /\ mg_run[p].pc = "done"
    /\ mg_run' = [mg_run EXCEPT ![p] = IdleRun]
    /\ UNCHANGED <<mg_files, mg_table, mg_schema, mg_lock>>

MigParked ==
    /\ mg_files = {}
    /\ mg_table = [v \in Versions |-> NoRecord]
    /\ mg_schema = {}
    /\ mg_lock = Free
    /\ mg_run = [p \in Procs |-> IdleRun]

\* any directory of migration files, any applied-migrations table
MigInit ==
    /\ mg_files \in SUBSET MigrationFiles
    /\ mg_table \in [Versions -> {NoRecord, EarlierSum, CurrentSum}]
    /\ mg_schema = {v \in Versions : mg_table[v] # NoRecord}
    /\ mg_lock = Free
    /\ mg_run = [p \in Procs |-> IdleRun]

MigStep(p) ==
    \/ MigCall(p) \/ MigAcquire(p) \/ MigRead(p) \/ MigValidate(p) \/ MigPending(p)
    \/ MigExec(p) \/ MigRecord(p) \/ MigRollbackSelect(p) \/ MigRollbackExec(p)
    \/ MigRollbackRemove(p) \/ MigFinally(p) \/ MigDryRead(p) \/ MigDryPending(p)
    \/ MigReturn(p)

(***************************************************************************)
(* services/pool.py: CircuitBreaker                                        *)
(***************************************************************************)
CLOSED == "closed"
OPEN == "open"
HALF_OPEN == "half_open"

\* callers sharing the breaker; each asks can_execute and, when admitted,
\* reports the outcome of its operation
Callers == {"t1", "t2", "t3"}
FailureThresholds == {1, 2}
\* failures are counted up to MaxFailures
MaxFailures == 3

\* since_failure stands for last_failure_time and the clock: Null (no failure
\* time), "recent" (less than recovery_timeout ago) or "elapsed"
CircuitBreaker(failure_threshold) ==
    [failure_threshold |-> failure_threshold,
     state |-> CLOSED,
     failure_count |-> 0,
     since_failure |-> Null,
     half_open_probe_active |-> FALSE]

record_success(self) ==
    [self EXCEPT !.half_open_probe_active = IF self.state = HALF_OPEN THEN FALSE ELSE @,
                 !.state = CLOSED,
                 !.failure_count = 0,
                 !.since_failure = Null]

record_failure(self) ==
    LET failure_count == self.failure_count + 1
    IN [self EXCEPT !.half_open_probe_active = IF self.state = HALF_OPEN THEN FALSE ELSE @,
                    !.failure_count = failure_count,
                    !.since_failure = "recent",
                    !.state = IF failure_count >= self.failure_threshold /\ self.state # OPEN
                              THEN OPEN ELSE @]

\* can_execute: the breaker afterwards and the value returned
can_execute(self) ==
    IF self.state = CLOSED THEN [self |-> self, returned |-> TRUE]
    ELSE IF self.state = HALF_OPEN
    THEN IF ~self.half_open_probe_active
         THEN [self |-> [self EXCEPT !.half_open_probe_active = TRUE], returned |-> TRUE]
         ELSE [self |-> self, returned |-> FALSE]
    ELSE IF self.since_failure = "elapsed"
    THEN [self |-> [self EXCEPT !.state = HALF_OPEN, !.half_open_probe_active = TRUE],
          returned |-> TRUE]
    ELSE [self |-> self, returned |-> FALSE]

transition_to_half_open(self) == [self EXCEPT !.state = HALF_OPEN]

reset(self) == [self EXCEPT !.state = CLOSED, !.failure_count = 0, !.since_failure = Null]

NoCall == [op |-> Null, caller |-> Null, returned |-> Null]

BreakerParked ==
    /\ cb_self = <<>>
    /\ cb_callers = <<>>
    /\ cb_last = NoCall

\* CircuitBreaker.__init__
BreakerInit ==
    /\ cb_self \in {CircuitBreaker(n) : n \in FailureThresholds}
    /\ cb_callers = [t \in Callers |-> "idle"]
    /\ cb_last = NoCall

\* caller t asks can_execute; admitted while the breaker is HALF_OPEN it is a probe
CbCanExecute(t) ==
    /\ cb_callers[t] = "idle"
    /\ LET call == can_execute(cb_self)
       IN /\ cb_self' = call.self
          /\ cb_callers' =
                [cb_callers EXCEPT ![t] =
                    IF ~call.returned THEN "idle"
                    ELSE IF call.self.state = HALF_OPEN THEN "probe" ELSE "admitted"]
          /\ cb_last' = [op |-> "can_execute", caller |-> t, returned |-> call.returned]

\* the operation of an admitted caller succeeded
CbRecordSuccess(t) ==
    /\ cb_callers[t] # "idle"
    /\ cb_self' = record_success(cb_self)
    /\ cb_callers' = [cb_callers EXCEPT ![t] = "idle"]
    /\ cb_last' = [op |-> "record_success", caller |-> t, returned |-> Null]

\* the operation of an admitted caller failed
CbRecordFailure(t) ==
    /\ cb_callers[t] # "idle"
    /\ cb_self.failure_count < MaxFailures
    /\ cb_self' = record_failure(cb_self)
    /\ cb_callers' = [cb_callers EXCEPT ![t] = "idle"]
    /\ cb_last' = [op |-> "record_failure", caller |-> t, returned |-> Null]

\* an operator calls transition_to_half_open(); callers keep their operations
CbTransitionToHalfOpen ==
    /\ cb_self' = transition_to_half_open(cb_self)
    /\ cb_last' = [op |-> "transition_to_half_open", caller |-> Null, returned |-> Null]
    /\ UNCHANGED cb_callers

\* an operator calls reset(); callers keep their operations
CbReset ==
    /\ cb_self' = reset(cb_self)
    /\ cb_last' = [op |-> "reset", caller |-> Null, returned |-> Null]
    /\ UNCHANGED cb_callers

\* time passes: recovery_timeout has elapsed since last_failure_time
CbTimeout ==
    /\ cb_self.since_failure = "recent"
    /\ cb_self' = [cb_self EXCEPT !.since_failure = "elapsed"]
    /\ UNCHANGED <<cb_callers, cb_last>>

(***************************************************************************)
(* services/pool.py: ConnectionPool.execute_with_retry                     *)
(***************************************************************************)
\* PoolConfig.max_retries
MaxRetriesChoices == {0, 1, 2}

PoolIdle ==
    [pc |-> "idle", ok |-> FALSE, max_retries |-> 0, attempt |-> 0,
     invoked |-> FALSE, outcome |-> Null, started |-> Null]

PoolInit == cp_run = PoolIdle

\* execute_with_retry(operation) is called and makes its first can_execute
\* check; ok says whether operation() returns or raises. The failures one call
\* can record are counted up to MaxFailures.
PoolCall ==
    /\ cp_run.pc = "idle"
    /\ \E ok \in BOOLEAN, max_retries \in MaxRetriesChoices :
        /\ cb_self.failure_count + max_retries + 1 <= MaxFailures
        /\ LET call == can_execute(cb_self)
           IN /\ cb_self' = call.self
              /\ cp_run' =
                    [PoolIdle EXCEPT
                        !.pc = IF call.returned THEN "attempt" ELSE "done",
                        !.outcome = IF call.returned THEN Null ELSE "blocked",
                        !.ok = ok,
                        !.max_retries = max_retries,
                        !.started = [state |-> cb_self.state,
                                     since_failure |-> cb_self.since_failure]]
    /\ UNCHANGED <<cb_callers, cb_last>>

\* one pass of the retry loop: can_execute again, operation(), record_success
\* and return, or record_failure and either sleep or raise last_exception
PoolAttempt ==
    /\ cp_run.pc = "attempt"
    /\ LET call == can_execute(cb_self)
           invoked == call.returned
       IN IF invoked /\ cp_run.ok
          THEN /\ cb_self' = record_success(call.self)
               /\ cp_run' = [cp_run EXCEPT !.pc = "done", !.invoked = TRUE,
                                           !.outcome = "returned"]
          ELSE /\ cb_self' = record_failure(call.self)
               /\ cp_run' =
                    [cp_run EXCEPT
                        !.invoked = @ \/ invoked,
                        !.pc = IF cp_run.attempt >= cp_run.max_retries
                               THEN "done" ELSE "sleep",
                        !.outcome = IF cp_run.attempt >= cp_run.max_retries
                                    THEN "raised" ELSE Null]
    /\ UNCHANGED <<cb_callers, cb_last>>

\* time.sleep(delay): the delay may or may not reach recovery_timeout
PoolSleep ==
    /\ cp_run.pc = "sleep"
    /\ \E since_failure \in {"recent", "elapsed"} :
        cb_self' = [cb_self EXCEPT !.since_failure = since_failure]
    /\ cp_run' = [cp_run EXCEPT !.pc = "attempt", !.attempt = @ + 1]
    /\ UNCHANGED <<cb_callers, cb_last>>

\* the call has returned or raised; the pool is ready for the next call
PoolReturn ==
    /\ cp_run.pc = "done"
    /\ cp_run' = PoolIdle
    /\ UNCHANGED breakerVars

(***************************************************************************)
(* services/conversation.py: ConversationStore                             *)
(***************************************************************************)
SessionIds == {"s1", "s2", "s3"}
MaxTurnsChoices == {1, 2}
MaxSessionsChoices == {1, 2}
\* datetime.now() is read up to MaxClock
MaxClock == 3

\* ConversationState(): a session created at time now
ConversationState(session_id, now) ==
    [session_id |-> session_id, turns |-> <<>>, last_active |-> now]

ConversationStore(max_turns_per_session, max_sessions) ==
    [max_turns |-> max_turns_per_session, max_sessions |-> max_sessions, sessions |-> <<>>]

SessionIndex(sessions, session_id) ==
    IF \E i \in DOMAIN sessions : sessions[i].session_id = session_id
    THEN CHOOSE i \in DOMAIN sessions : sessions[i].session_id = session_id
    ELSE 0

RemoveAt(seq, i) == SubSeq(seq, 1, i - 1) \o SubSeq(seq, i + 1, Len(seq))

\* the first session in insertion order among those with the least last_active:
\* the head of sorted(keys, key=last_active), which is stable
OldestIndex(sessions) ==
    CHOOSE i \in DOMAIN sessions :
        \A j \in DOMAIN sessions :
            \/ sessions[i].last_active < sessions[j].last_active
            \/ sessions[i].last_active = sessions[j].last_active /\ i <= j

\* Mutation: the sessions inserted first are evicted
RECURSIVE enforce_session_limit_insertion_order(_, _)
enforce_session_limit_insertion_order(sessions, max_sessions) ==
    IF Len(sessions) > max_sessions
    THEN enforce_session_limit_insertion_order(Tail(sessions), max_sessions)
    ELSE sessions

\* _enforce_session_limit: the sessions left in the dict
RECURSIVE enforce_session_limit(_, _)
enforce_session_limit(sessions, max_sessions) ==
    IF Len(sessions) > max_sessions
    THEN enforce_session_limit(RemoveAt(sessions, OldestIndex(sessions)), max_sessions)
    ELSE sessions

\* get_or_create(session_id): fresh is the uuid of a new ConversationState;
\* gives the store afterwards and the session_id of the state returned
get_or_create(self, session_id, fresh, now) ==
    IF session_id # Null /\ SessionIndex(self.sessions, session_id) # 0
    THEN [self |-> self, session_id |-> session_id]
    ELSE LET id == IF session_id # Null THEN session_id ELSE fresh
             state == ConversationState(id, now)
             stored == Append(self.sessions, state)
         IN [self |-> [self EXCEPT !.sessions =
                            enforce_session_limit(stored, self.max_sessions)],
             session_id |-> id]

LastTurns(turns, n) ==
    IF Len(turns) > n THEN SubSeq(turns, Len(turns) - n + 1, Len(turns)) ELSE turns

\* add_turn(session_id, turn) for a stored session
add_turn(self, session_id, turn, now) ==
    LET i == SessionIndex(self.sessions, session_id)
    IN [self EXCEPT !.sessions[i] =
            [@ EXCEPT !.turns = LastTurns(Append(@, turn), self.max_turns),
                      !.last_active = now]]

delete_session(self, session_id) ==
    LET i == SessionIndex(self.sessions, session_id)
    IN IF i = 0 THEN self ELSE [self EXCEPT !.sessions = RemoveAt(@, i)]

UserTurn(content) ==
    [role |-> "user", content |-> content, branch_code |-> Null, action_taken |-> Null]

StoreCall(op, session_id, before, after) ==
    [op |-> op, session_id |-> session_id,
     evicted |-> {before[i].session_id : i \in DOMAIN before}
                    \ ({after[i].session_id : i \in DOMAIN after} \cup {session_id})]

NoStoreCall == [op |-> Null, session_id |-> Null, evicted |-> {}]

StoreParked ==
    /\ cs_self = <<>>
    /\ cs_clock = 0
    /\ cs_last = NoStoreCall

\* ConversationStore.__init__ with limits above zero
StoreInit ==
    /\ cs_self \in {ConversationStore(t, n) : t \in MaxTurnsChoices, n \in MaxSessionsChoices}
    /\ cs_clock = 0
    /\ cs_last = NoStoreCall

\* uuid4 of a new session: any id no stored session has
FreshIds == SessionIds \ {cs_self.sessions[i].session_id : i \in DOMAIN cs_self.sessions}

StoreGetOrCreate ==
    /\ \E session_id \in SessionIds \cup {Null} :
       \E fresh \in (IF session_id = Null THEN FreshIds ELSE {Null}) :
        LET got == get_or_create(cs_self, session_id, fresh, cs_clock)
        IN /\ cs_self' = got.self
           /\ cs_last' = StoreCall("get_or_create", got.session_id,
                                   cs_self.sessions, got.self.sessions)
    /\ UNCHANGED cs_clock

\* add_turn raises KeyError for a session that is not stored
StoreAddTurn ==
    /\ \E session_id \in SessionIds :
        /\ SessionIndex(cs_self.sessions, session_id) # 0
        /\ cs_self' = add_turn(cs_self, session_id, UserTurn("q1"), cs_clock)
        /\ cs_last' = [op |-> "add_turn", session_id |-> session_id, evicted |-> {}]
    /\ UNCHANGED cs_clock

StoreDelete ==
    /\ \E session_id \in SessionIds :
        /\ cs_self' = delete_session(cs_self, session_id)
        /\ cs_last' = [op |-> "delete_session", session_id |-> session_id, evicted |-> {}]
    /\ UNCHANGED cs_clock

\* time passes between two calls
StoreTick ==
    /\ cs_clock < MaxClock
    /\ cs_clock' = cs_clock + 1
    /\ UNCHANGED <<cs_self, cs_last>>

(***************************************************************************)
(* orchestration/planner.py: Planner.chat                                  *)
(***************************************************************************)
\* base class of each exception type
ExcParent ==
    [RetrievalError |-> "SecondBrainError", SecondBrainError |-> "Exception",
     ValidationError |-> "ValueError", ValueError |-> "Exception",
     KeyError |-> "LookupError", LookupError |-> "Exception",
     RuntimeError |-> "Exception"]

RECURSIVE IsInstance(_, _)
IsInstance(exc, class) ==
    \/ exc = class
    \/ exc \in DOMAIN ExcParent /\ IsInstance(ExcParent[exc], class)

\* what self.recall.run and the formatting raise or return in one chat call
RetrievalRaises == {"RetrievalError", "SecondBrainError", "KeyError", "RuntimeError", "ValueError"}
RetrievalReturns ==
    {[action |-> "fallback", branch_code |-> EMPTY_SET, candidates |-> 0],
     [action |-> "clarify", branch_code |-> LOW_CONFIDENCE, candidates |-> 1],
     [action |-> "escalate", branch_code |-> CHANNEL_MISMATCH, candidates |-> 1],
     [action |-> "proceed", branch_code |-> SUCCESS, candidates |-> 1],
     [action |-> "proceed", branch_code |-> SUCCESS, candidates |-> 0]}

PlannerQueries == {"q1", "q2"}
\* the session_id argument: the caller resumes a session or passes None
ChatSessionIds == {"s1", Null}
\* top_k and threshold arguments; RetrievalRequest wants top_k >= 1 and
\* 0 <= threshold <= 1
ChatLimits ==
    {[top_k |-> 5, threshold |-> 60], [top_k |-> 0, threshold |-> 60],
     [top_k |-> 5, threshold |-> 150]}
RequestValid(top_k, threshold) == top_k >= 1 /\ threshold >= 0 /\ threshold <= 100

PlannerResponse(response_text, action_taken, branch_code, session_id) ==
    [response_text |-> response_text, action_taken |-> action_taken,
     branch_code |-> branch_code, session_id |-> session_id]

\* _interpret_action and the _format_* methods; the text is named by its template
interpret_action(retrieval_response, session_id) ==
    LET action == retrieval_response.action
        branch == retrieval_response.branch_code
        taken == CASE action = "proceed" ->
                        IF retrieval_response.candidates = 0 THEN "fallback" ELSE "proceed"
                   [] action = "clarify" -> "clarify"
                   [] action = "escalate" -> "escalate"
                   [] OTHER -> "fallback"
    IN PlannerResponse(<<"template", taken>>, taken, branch, session_id)

format_retrieval_error(session_id) ==
    PlannerResponse(<<"retrieval issue">>, "fallback", "RETRIEVAL_ERROR", session_id)

PlannerErrorTrace(error_type) ==
    [status |-> "error", selected_provider |-> "unknown", branch_code |-> "RETRIEVAL_ERROR",
     action |-> "fallback", error_type |-> error_type]

AssistantTurn(response) ==
    [role |-> "assistant", content |-> response.response_text,
     branch_code |-> response.branch_code, action_taken |-> response.action_taken]

NoChat == [outcome |-> Null]

PlannerParked ==
    /\ pl_self = <<>>
    /\ pl_pc = "idle"
    /\ pl_call = <<>>
    /\ pl_result = NoChat

\* Planner.__init__ over a new store
PlannerInit ==
    /\ pl_self \in [has_collector : BOOLEAN]
    /\ pl_pc = "idle"
    /\ pl_call = <<>>
    /\ pl_result = NoChat

\* chat() up to the user turn: get_or_create, then add_turn
PlanChat ==
    /\ pl_pc = "idle"
    /\ \E query \in PlannerQueries, session_id \in ChatSessionIds, limits \in ChatLimits :
        \E fresh \in (IF session_id = Null THEN FreshIds ELSE {Null}) :
        LET got == get_or_create(cs_self, session_id, fresh, cs_clock)
        IN /\ cs_self' = add_turn(got.self, got.session_id, UserTurn(query), cs_clock)
           /\ cs_last' = [op |-> "add_turn", session_id |-> got.session_id, evicted |-> {}]
           /\ pl_call' = [query |-> query, session_id |-> got.session_id,
                          top_k |-> limits.top_k, threshold |-> limits.threshold,
                          response |-> Null, traces |-> <<>>, error |-> Null]
    /\ pl_pc' = "retrieving"
    /\ pl_result' = NoChat
    /\ UNCHANGED <<pl_self, cs_clock>>

\* Mutation: every exception of the try block is turned into the fallback
PlanRetrieve_catch_all ==
    /\ pl_pc = "retrieving"
    /\ \E raised \in RetrievalRaises \cup {Null} :
       \E returned \in (IF raised = Null THEN RetrievalReturns ELSE {Null}) :
        LET exc == IF ~RequestValid(pl_call.top_k, pl_call.threshold)
                   THEN "ValidationError" ELSE raised
        IN IF exc = Null
           THEN /\ pl_call' = [pl_call EXCEPT
                                !.response = interpret_action(returned, pl_call.session_id)]
                /\ pl_pc' = "formatted"
                /\ UNCHANGED pl_result
           ELSE /\ pl_call' = [pl_call EXCEPT
                                !.response = format_retrieval_error(pl_call.session_id),
                                !.traces = IF pl_self.has_collector
                                           THEN <<PlannerErrorTrace(exc)>> ELSE <<>>,
                                !.error = exc]
                /\ pl_pc' = "formatted"
                /\ UNCHANGED pl_result
    /\ UNCHANGED <<pl_self, storeVars>>

\* the try block of chat(): RetrievalRequest(...), self.recall.run and
\* _interpret_action, with the except clause for SecondBrainError and
\* ValidationError; any other exception leaves chat()
PlanRetrieve ==
    /\ pl_pc = "retrieving"
    /\ \E raised \in RetrievalRaises \cup {Null} :
       \E returned \in (IF raised = Null THEN RetrievalReturns ELSE {Null}) :
        LET exc == IF ~RequestValid(pl_call.top_k, pl_call.threshold)
                   THEN "ValidationError" ELSE raised
        IN IF exc = Null
           THEN /\ pl_call' = [pl_call EXCEPT
                                !.response = interpret_action(returned, pl_call.session_id)]
                /\ pl_pc' = "formatted"
                /\ UNCHANGED pl_result
           ELSE IF IsInstance(exc, "SecondBrainError") \/ IsInstance(exc, "ValidationError")
           THEN /\ pl_call' = [pl_call EXCEPT
                                !.response = format_retrieval_error(pl_call.session_id),
                                !.traces = IF pl_self.has_collector
                                           THEN <<PlannerErrorTrace(exc)>> ELSE <<>>,
                                !.error = exc]
                /\ pl_pc' = "formatted"
                /\ UNCHANGED pl_result
           ELSE /\ pl_result' = [outcome |-> "raise", error |-> exc, response |-> Null,
                                 traces |-> <<>>, call |-> pl_call]
                /\ pl_pc' = "idle"
                /\ pl_call' = <<>>
    /\ UNCHANGED <<pl_self, storeVars>>

\* Mutation: the response is returned without the assistant turn
PlanRespond_no_turn ==
    /\ pl_pc = "formatted"
    /\ cs_self' = cs_self
    /\ cs_last' = cs_last
    /\ pl_result' = [outcome |-> "return", error |-> pl_call.error,
                     response |-> pl_call.response, traces |-> pl_call.traces,
                     call |-> pl_call]
    /\ pl_pc' = "idle"
    /\ pl_call' = <<>>
    /\ UNCHANGED <<pl_self, cs_clock>>

\* the assistant turn is added and the response returned
PlanRespond ==
    /\ pl_pc = "formatted"
    /\ cs_self' = add_turn(cs_self, pl_call.session_id, AssistantTurn(pl_call.response),
                           cs_clock)
    /\ cs_last' = [op |-> "add_turn", session_id |-> pl_call.session_id, evicted |-> {}]
    /\ pl_result' = [outcome |-> "return", error |-> pl_call.error,
                     response |-> pl_call.response, traces |-> pl_call.traces,
                     call |-> pl_call]
    /\ pl_pc' = "idle"
    /\ pl_call' = <<>>
    /\ UNCHANGED <<pl_self, cs_clock>>

(***************************************************************************)
(* orchestration/planner.py: concurrent Planner.chat calls on one store    *)
(***************************************************************************)
\* threads calling chat(); each store call of chat() takes the store's lock
\* on its own, so the calls of different threads interleave between them
ChatCallers == {"a", "b"}

\* what the try block of one chat call does: it returns a response, raises an
\* error the except clause formats, or raises one that leaves chat()
ChatRetrievals == {Null, "RetrievalError", "RuntimeError"}

ChatIdle == [pc |-> "idle", session_id |-> Null, response |-> Null, outcome |-> Null]

\* the calls are followed within one reading of the clock, so sessions of
\* equal last_active are evicted in insertion order
ChatsInit == ch_procs = [c \in ChatCallers |-> ChatIdle]

\* state = self.conversations.get_or_create(session_id)
ChatLookup(c) ==
    /\ ch_procs[c].pc = "idle"
    /\ \E session_id \in ChatSessionIds :
       \E fresh \in (IF session_id = Null THEN FreshIds ELSE {Null}) :
        LET got == get_or_create(cs_self, session_id, fresh, cs_clock)
        IN /\ cs_self' = got.self
           /\ cs_last' = StoreCall("get_or_create", got.session_id,
                                   cs_self.sessions, got.self.sessions)
           /\ ch_procs' = [ch_procs EXCEPT ![c] =
                            [ChatIdle EXCEPT !.pc = "user", !.session_id = got.session_id]]
    /\ UNCHANGED cs_clock

\* self.conversations.add_turn(state.session_id, user_turn); the KeyError of
\* add_turn leaves chat()
ChatUserTurn(c) ==
    /\ ch_procs[c].pc = "user"
    /\ IF SessionIndex(cs_self.sessions, ch_procs[c].session_id) = 0
       THEN /\ ch_procs' = [ch_procs EXCEPT ![c].pc = "done", ![c].outcome = "KeyError"]
            /\ UNCHANGED <<cs_self, cs_last>>
       ELSE /\ cs_self' = add_turn(cs_self, ch_procs[c].session_id, UserTurn("q1"), cs_clock)
            /\ cs_last' = [op |-> "add_turn", session_id |-> ch_procs[c].session_id,
                           evicted |-> {}]
            /\ ch_procs' = [ch_procs EXCEPT ![c].pc = "retrieving"]
    /\ UNCHANGED cs_clock

\* the try block and its except clause; the store is not touched
ChatRetrieve(c) ==
    /\ ch_procs[c].pc = "retrieving"
    /\ \E raised \in ChatRetrievals :
        ch_procs' =
            [ch_procs EXCEPT ![c] =
                IF raised = Null
                THEN [@ EXCEPT !.pc = "formatted",
                               !.response = interpret_action(
                                    [action |-> "proceed", branch_code |-> SUCCESS,
                                     candidates |-> 1], ch_procs[c].session_id)]
                ELSE IF IsInstance(raised, "SecondBrainError")
                THEN [@ EXCEPT !.pc = "formatted",
                               !.response = format_retrieval_error(ch_procs[c].session_id)]
                ELSE [@ EXCEPT !.pc = "done", !.outcome = raised]]
    /\ UNCHANGED storeVars

\* self.conversations.add_turn(state.session_id, assistant_turn); return response
ChatAssistantTurn(c) ==
    /\ ch_procs[c].pc = "formatted"
    /\ IF SessionIndex(cs_self.sessions, ch_procs[c].session_id) = 0
       THEN /\ ch_procs' = [ch_procs EXCEPT ![c].pc = "done", ![c].outcome = "KeyError"]
            /\ UNCHANGED <<cs_self, cs_last>>
       ELSE /\ cs_self' = add_turn(cs_self, ch_procs[c].session_id,
                                   AssistantTurn(ch_procs[c].response), cs_clock)
            /\ cs_last' = [op |-> "add_turn", session_id |-> ch_procs[c].session_id,
                           evicted |-> {}]
            /\ ch_procs' = [ch_procs EXCEPT ![c].pc = "done", ![c].outcome = "return"]
    /\ UNCHANGED cs_clock

\* the caller has its response or exception and may call chat() again
ChatReturn(c) ==
    /\ ch_procs[c].pc = "done"
    /\ ch_procs' = [ch_procs EXCEPT ![c] = ChatIdle]
    /\ UNCHANGED storeVars

(***************************************************************************)
(* services/concurrent_writes.py: ChunkWriteManager over the locked        *)
(* in-memory executor of tests/test_concurrent_writes.py                   *)
(***************************************************************************)
Jobs == {"j1", "j2"}
ContentHashes == {"h1", "h2"}
\* updated_at values of the jobs' data
Stamps == {1, 2, 3}

\* store.get(content_hash) of a hash that is not stored
NoRow == <<>>
\* no audit entry is logged
NoEntry == <<>>

ChunkUpsertData(content_hash, updated_at, job_id) ==
    [content_hash |-> content_hash, updated_at |-> updated_at, job_id |-> job_id]

\* previous_updated_at None is written 0, below every value of Stamps
UpsertResult(content_hash, was_conflict, conflict_resolved, previous, job_id) ==
    [content_hash |-> content_hash,
     was_conflict |-> was_conflict,
     conflict_resolved |-> conflict_resolved,
     previous_updated_at |-> IF previous = NoRow THEN 0 ELSE previous.updated_at,
     previous_job_id |-> IF previous = NoRow THEN Null ELSE previous.job_id,
     job_id |-> job_id]

\* Mutation: a write to a stored hash always replaces the row
upsert_chunk_always_writes(store, data) ==
    LET existing == store[data.content_hash]
    IN IF existing = NoRow
       THEN [store |-> [store EXCEPT ![data.content_hash] = data],
             result |-> UpsertResult(data.content_hash, FALSE, FALSE, NoRow, data.job_id)]
       ELSE [store |-> [store EXCEPT ![data.content_hash] = data],
             result |-> UpsertResult(data.content_hash, TRUE,
                                     data.updated_at > existing.updated_at,
                                     existing, data.job_id)]

\* upsert_chunk under the executor's lock: the store afterwards and the result
upsert_chunk(store, data) ==
    LET existing == store[data.content_hash]
    IN IF existing = NoRow
       THEN [store |-> [store EXCEPT ![data.content_hash] = data],
             result |-> UpsertResult(data.content_hash, FALSE, FALSE, NoRow, data.job_id)]
       ELSE IF data.updated_at > existing.updated_at
       THEN [store |-> [store EXCEPT ![data.content_hash] = data],
             result |-> UpsertResult(data.content_hash, TRUE, TRUE, existing, data.job_id)]
       ELSE [store |-> store,
             result |-> UpsertResult(data.content_hash, TRUE, FALSE, existing, data.job_id)]

\* the audit entry write_chunk builds for a result (resolved_at, a clock
\* reading, is left out), or NoEntry when it logs nothing
ConflictAuditEntry(data, result) ==
    IF /\ result.was_conflict /\ result.conflict_resolved
       /\ result.previous_job_id # Null /\ result.previous_updated_at # 0
    THEN [content_hash |-> result.content_hash,
          winner_job_id |-> data.job_id,
          loser_job_id |-> result.previous_job_id,
          winner_updated_at |-> data.updated_at,
          loser_updated_at |-> result.previous_updated_at]
    ELSE IF /\ result.was_conflict /\ ~result.conflict_resolved
            /\ result.previous_job_id # Null /\ result.previous_updated_at # 0
    THEN [content_hash |-> result.content_hash,
          winner_job_id |-> result.previous_job_id,
          loser_job_id |-> data.job_id,
          winner_updated_at |-> result.previous_updated_at,
          loser_updated_at |-> data.updated_at]
    ELSE NoEntry

JobIdle == [pc |-> "idle", data |-> Null, result |-> Null]

\* a new executor and manager, and jobs that have not called yet
WritesInit ==
    /\ cw_store = [h \in ContentHashes |-> NoRow]
    /\ cw_log = <<>>
    /\ cw_jobs = [j \in Jobs |-> JobIdle]

\* job j calls write_chunk(data)
CwCall(j) ==
    /\ cw_jobs[j].pc = "idle"
    /\ \E content_hash \in ContentHashes, updated_at \in Stamps :
        cw_jobs' = [cw_jobs EXCEPT ![j] =
                        [JobIdle EXCEPT !.pc = "upsert",
                                        !.data = ChunkUpsertData(content_hash, updated_at, j)]]
    /\ UNCHANGED <<cw_store, cw_log>>

\* result = self._executor.upsert_chunk(data)
CwUpsert(j) ==
    /\ cw_jobs[j].pc = "upsert"
    /\ LET done == upsert_chunk(cw_store, cw_jobs[j].data)
       IN /\ cw_store' = done.store
          /\ cw_jobs' = [cw_jobs EXCEPT ![j].pc = "log", ![j].result = done.result]
    /\ UNCHANGED cw_log

\* the if / elif of write_chunk with self._executor.log_conflict(entry), and
\* return result
CwLog(j) ==
    /\ cw_jobs[j].pc = "log"
    /\ LET entry == ConflictAuditEntry(cw_jobs[j].data, cw_jobs[j].result)
       IN cw_log' = IF entry = NoEntry THEN cw_log ELSE Append(cw_log, entry)
    /\ cw_jobs' = [cw_jobs EXCEPT ![j].pc = "done"]
    /\ UNCHANGED cw_store

(***************************************************************************)
(* services/transaction.py: TransactionManager                             *)
(***************************************************************************)
\* transaction() blocks are nested, and depth and savepoints grow, up to MaxDepth
MaxDepth == 3

TransactionState == [active |-> FALSE, depth |-> 0, savepoints |-> <<>>]

\* savepoint operations of the executor that can raise
SavepointOps == {"create_savepoint", "release_savepoint", "rollback_to_savepoint"}

\* an open block: is_nested as computed on entry, ctx.rollback_requested, and
\* raised: an exception is on its way out of the body of the block
Frame(is_nested) == [is_nested |-> is_nested, rollback_requested |-> FALSE, raised |-> FALSE]

NoExit == [exit |-> Null, raised |-> FALSE, outermost |-> FALSE]

DropLast(seq) == SubSeq(seq, 1, Len(seq) - 1)

\* the exception of a block that ended reaches the body of the enclosing block
Propagate(frames, raised) ==
    IF raised /\ frames # <<>>
    THEN [frames EXCEPT ![Len(frames)].raised = TRUE]
    ELSE frames

TxParked ==
    /\ tx_state = <<>>
    /\ tx_frames = <<>>
    /\ tx_last = NoExit

\* TransactionManager.__init__
TxInit ==
    /\ tx_state = TransactionState
    /\ tx_frames = <<>>
    /\ tx_last = NoExit

\* `with manager.transaction() as ctx:` up to the yield; fails: the executor
\* operations that raise during this call
TxEnter ==
    /\ Len(tx_frames) < MaxDepth
    /\ tx_state.depth < MaxDepth
    /\ Len(tx_state.savepoints) < MaxDepth
    /\ IF tx_frames = <<>> THEN TRUE ELSE ~tx_frames[Len(tx_frames)].raised
    /\ \E fails \in SUBSET {"create_savepoint"} :
        LET is_nested == tx_state.depth > 0
            savepoint_name == tx_state.depth + 1
        IN IF is_nested /\ "create_savepoint" \in fails
           THEN /\ tx_frames' = Propagate(tx_frames, TRUE)
                /\ tx_last' = [exit |-> "enter_failed", raised |-> TRUE,
                               outermost |-> tx_frames = <<>>]
                /\ UNCHANGED tx_state
           ELSE /\ tx_state' =
                    IF is_nested
                    THEN [tx_state EXCEPT !.depth = @ + 1,
                                          !.savepoints = Append(@, savepoint_name)]
                    ELSE [tx_state EXCEPT !.active = TRUE, !.depth = 1]
                /\ tx_frames' = Append(tx_frames, Frame(is_nested))
                /\ UNCHANGED tx_last

\* ctx.rollback() in the body of the innermost open block
TxRequestRollback ==
    /\ tx_frames # <<>>
    /\ ~tx_frames[Len(tx_frames)].raised
    /\ ~tx_frames[Len(tx_frames)].rollback_requested
    /\ tx_frames' = [tx_frames EXCEPT ![Len(tx_frames)].rollback_requested = TRUE]
    /\ UNCHANGED <<tx_state, tx_last>>

\* the body of the innermost open block raises
TxBodyRaise ==
    /\ tx_frames # <<>>
    /\ ~tx_frames[Len(tx_frames)].raised
    /\ tx_frames' = [tx_frames EXCEPT ![Len(tx_frames)].raised = TRUE]
    /\ UNCHANGED <<tx_state, tx_last>>

\* the body of the innermost open block catches the exception of a nested
\* block and goes on
TxCatch ==
    /\ tx_frames # <<>>
    /\ tx_frames[Len(tx_frames)].raised
    /\ tx_frames' = [tx_frames EXCEPT ![Len(tx_frames)].raised = FALSE]
    /\ UNCHANGED <<tx_state, tx_last>>

\* the state after the rollback of one level: the except clause, and the
\* manual rollback of the try clause
RolledBack(state, is_nested) ==
    IF is_nested
    THEN [state EXCEPT !.savepoints = DropLast(@), !.depth = @ - 1]
    ELSE [state EXCEPT !.active = FALSE, !.depth = 0, !.savepoints = <<>>]

\* the state after release or commit
Completed(state, is_nested) ==
    IF is_nested
    THEN [state EXCEPT !.savepoints = DropLast(@), !.depth = @ - 1]
    ELSE [state EXCEPT !.active = FALSE, !.depth = 0]

\* the innermost open block ends: the code after the yield, the except
\* clause when the body or that code raised
TxExit ==
    /\ tx_frames # <<>>
    /\ \E fails \in SUBSET (SavepointOps \ {"create_savepoint"}) :
        LET frame == tx_frames[Len(tx_frames)]
            is_nested == frame.is_nested
            no_savepoint == is_nested /\ tx_state.savepoints = <<>>
            manual == ~frame.raised /\ frame.rollback_requested
            try_raises ==
                /\ ~frame.raised
                /\ \/ no_savepoint
                   \/ is_nested /\ manual /\ "rollback_to_savepoint" \in fails
                   \/ is_nested /\ ~manual /\ "release_savepoint" \in fails
            handled == frame.raised \/ try_raises
            except_raises ==
                handled /\ (no_savepoint \/ (is_nested /\ "rollback_to_savepoint" \in fails))
            outer == DropLast(tx_frames)
        IN /\ tx_state' =
                IF ~handled
                THEN IF manual THEN RolledBack(tx_state, is_nested)
                     ELSE Completed(tx_state, is_nested)
                ELSE IF except_raises THEN tx_state
                ELSE RolledBack(tx_state, is_nested)
           /\ tx_frames' = Propagate(outer, handled)
           /\ tx_last' =
                [exit |-> IF ~handled THEN (IF manual THEN "manual_rollback" ELSE "completed")
                          ELSE IF except_raises THEN "rollback_failed"
                          ELSE "rolled_back",
                 raised |-> handled,
                 outermost |-> outer = <<>>]

(***************************************************************************)
(* services/lifecycle.py: ChunkLifecycleService                            *)
(***************************************************************************)
Missing == "missing"
ChunkStatusValues == {"active", "superseded", "archived", "deleted"}
VALID_TRANSITIONS ==
    {<<"active", "superseded">>, <<"active", "archived">>, <<"active", "deleted">>,
     <<"superseded", "deleted">>, <<"archived", "active">>, <<"archived", "deleted">>,
     <<"deleted", "active">>}

Chunks == {"c1", "c2"}
\* callers of one service over one store
LcCallers == {"a", "b"}

LcIdle == [pc |-> "idle", chunk_id |-> Null, new_status |-> Null,
           from_status |-> Null, raised |-> Null]

LifecycleParked ==
    /\ lc_store = <<>>
    /\ lc_procs = <<>>

\* a store seeded with some chunks
LifecycleInit ==
    /\ lc_store \in [Chunks -> ChunkStatusValues \cup {Missing}]
    /\ lc_procs = [p \in LcCallers |-> LcIdle]

\* transition(chunk_id, new_status) is called
LcCall(p) ==
    /\ lc_procs[p].pc = "idle"
    /\ \E chunk_id \in Chunks, new_status \in ChunkStatusValues :
        lc_procs' = [lc_procs EXCEPT ![p] =
            [LcIdle EXCEPT !.pc = "read", !.chunk_id = chunk_id, !.new_status = new_status]]
    /\ UNCHANGED lc_store

\* get_chunk_status and the three checks on the record read
LcRead(p) ==
    /\ lc_procs[p].pc = "read"
    /\ LET from_status == lc_store[lc_procs[p].chunk_id]
           new_status == lc_procs[p].new_status
           raised ==
                IF from_status = Missing THEN "CHUNK_NOT_FOUND"
                ELSE IF from_status = new_status THEN "NO_OP_TRANSITION"
                ELSE IF <<from_status, new_status>> \notin VALID_TRANSITIONS
                THEN "INVALID_TRANSITION"
                ELSE Null
       IN lc_procs' = [lc_procs EXCEPT ![p].from_status = from_status,
                                       ![p].raised = raised,
                                       ![p].pc = IF raised = Null THEN "update" ELSE "done"]
    /\ UNCHANGED lc_store

\* update_chunk_status(chunk_id, new_status)
LcUpdate(p) ==
    /\ lc_procs[p].pc = "update"
    /\ lc_store' = [lc_store EXCEPT ![lc_procs[p].chunk_id] =
                        IF @ = Missing THEN @ ELSE lc_procs[p].new_status]
    /\ lc_procs' = [lc_procs EXCEPT ![p].pc = "done"]

\* transition returns or raises ChunkLifecycleError to its caller
LcReturn(p) ==
    /\ lc_procs[p].pc = "done"
    /\ lc_procs' = [lc_procs EXCEPT ![p] = LcIdle]
    /\ UNCHANGED lc_store

PoolParked == cp_run = <<>>
ChatsParked == ch_procs = <<>>
WritesParked ==
    /\ cw_store = <<>>
    /\ cw_log = <<>>
    /\ cw_jobs = <<>>

ExtrasParked == PoolParked /\ ChatsParked /\ WritesParked
ServicesParked ==
    /\ BreakerParked /\ StoreParked /\ PlannerParked /\ TxParked /\ LifecycleParked
    /\ ExtrasParked
CoreParked == RouteIdle /\ BranchIdle /\ RecallParked /\ MigParked /\ DriftIdle
coreVars == <<routeVars, branchVars, recallVars, migVars, driftVars>>

InitRoute ==
    RouteIdle /\ BranchIdle /\ RecallParked /\ MigParked /\ DriftIdle /\ ServicesParked
NextRoute == RouteCall \/ RouteReturn
SpecRoute == InitRoute /\ [][NextRoute]_vars

InitBranch ==
    RouteIdle /\ BranchIdle /\ RecallParked /\ MigParked /\ DriftIdle /\ ServicesParked
NextBranch == BranchCall \/ BranchReturn
SpecBranch == InitBranch /\ [][NextBranch]_vars

InitRecall ==
    RouteIdle /\ BranchIdle /\ RecallParked /\ MigParked /\ DriftIdle /\ ServicesParked
NextRecall ==
    RecallConstruct \/ RecallRun \/ RecallReturn \/ BranchCall \/ BranchReturn
SpecRecall == InitRecall /\ [][NextRecall]_vars

InitRepeat ==
    RouteIdle /\ BranchIdle /\ RecallParked /\ MigParked /\ DriftIdle /\ ServicesParked
NextRepeat == RecallConstruct \/ RepeatRun \/ RepeatReturn
SpecRepeat == InitRepeat /\ [][NextRepeat]_vars

InitMig ==
    RouteIdle /\ BranchIdle /\ RecallParked /\ MigInit /\ DriftIdle /\ ServicesParked
NextMig == \E p \in Procs : MigStep(p) /\ UNCHANGED <<routeVars, branchVars, recallVars, driftVars, serviceVars>>
SpecMig == InitMig /\ [][NextMig]_vars

InitDrift ==
    RouteIdle /\ BranchIdle /\ RecallParked /\ MigParked /\ DriftIdle /\ ServicesParked
NextDrift == DriftCall \/ DriftReturn
SpecDrift == InitDrift /\ [][NextDrift]_vars

InitBreaker ==
    /\ CoreParked
    /\ BreakerInit /\ StoreParked /\ PlannerParked /\ TxParked /\ LifecycleParked /\ ExtrasParked
notBreakerVars == <<coreVars, storeVars, plannerVars, txVars, lifecycleVars, extraVars>>
NextBreaker ==
    \/ \E t \in Callers : CbCanExecute(t) /\ UNCHANGED notBreakerVars
    \/ \E t \in Callers : CbRecordSuccess(t) /\ UNCHANGED notBreakerVars
    \/ \E t \in Callers : CbRecordFailure(t) /\ UNCHANGED notBreakerVars
    \/ CbTimeout /\ UNCHANGED notBreakerVars
SpecBreaker == InitBreaker /\ [][NextBreaker]_vars

\* the breaker with its manual methods as well
NextBreakerAdmin ==
    \/ \E t \in Callers : CbCanExecute(t) /\ UNCHANGED notBreakerVars
    \/ \E t \in Callers : CbRecordSuccess(t) /\ UNCHANGED notBreakerVars
    \/ \E t \in Callers : CbRecordFailure(t) /\ UNCHANGED notBreakerVars
    \/ CbTimeout /\ UNCHANGED notBreakerVars
    \/ CbTransitionToHalfOpen /\ UNCHANGED notBreakerVars
    \/ CbReset /\ UNCHANGED notBreakerVars
SpecBreakerAdmin == InitBreaker /\ [][NextBreakerAdmin]_vars

InitPool ==
    /\ CoreParked
    /\ BreakerInit /\ StoreParked /\ PlannerParked /\ TxParked /\ LifecycleParked
    /\ PoolInit /\ ChatsParked /\ WritesParked
notPoolVars == <<coreVars, storeVars, plannerVars, txVars, lifecycleVars, chatVars, writeVars>>
NextPool ==
    \/ PoolCall /\ UNCHANGED notPoolVars
    \/ PoolAttempt /\ UNCHANGED notPoolVars
    \/ PoolSleep /\ UNCHANGED notPoolVars
    \/ PoolReturn /\ UNCHANGED notPoolVars
    \/ CbTimeout /\ UNCHANGED notBreakerVars
SpecPool == InitPool /\ [][NextPool]_vars

InitChats ==
    /\ CoreParked
    /\ BreakerParked /\ StoreInit /\ PlannerParked /\ TxParked /\ LifecycleParked
    /\ PoolParked /\ ChatsInit /\ WritesParked
notChatVars == <<coreVars, breakerVars, plannerVars, txVars, lifecycleVars, poolVars, writeVars>>
NextChats ==
    \/ \E c \in ChatCallers : ChatLookup(c) /\ UNCHANGED notChatVars
    \/ \E c \in ChatCallers : ChatUserTurn(c) /\ UNCHANGED notChatVars
    \/ \E c \in ChatCallers : ChatRetrieve(c) /\ UNCHANGED notChatVars
    \/ \E c \in ChatCallers : ChatAssistantTurn(c) /\ UNCHANGED notChatVars
    \/ \E c \in ChatCallers : ChatReturn(c) /\ UNCHANGED notChatVars
SpecChats == InitChats /\ [][NextChats]_vars

InitWrites ==
    /\ CoreParked
    /\ BreakerParked /\ StoreParked /\ PlannerParked /\ TxParked /\ LifecycleParked
    /\ PoolParked /\ ChatsParked /\ WritesInit
notWriteVars == <<coreVars, breakerVars, storeVars, plannerVars, txVars, lifecycleVars, poolVars, chatVars>>
NextWrites ==
    \/ \E j \in Jobs : CwCall(j) /\ UNCHANGED notWriteVars
    \/ \E j \in Jobs : CwUpsert(j) /\ UNCHANGED notWriteVars
    \/ \E j \in Jobs : CwLog(j) /\ UNCHANGED notWriteVars
SpecWrites == InitWrites /\ [][NextWrites]_vars

InitStore ==
    /\ CoreParked
    /\ BreakerParked /\ StoreInit /\ PlannerParked /\ TxParked /\ LifecycleParked /\ ExtrasParked
notStoreVars == <<coreVars, breakerVars, plannerVars, txVars, lifecycleVars, extraVars>>
NextStore ==
    \/ StoreGetOrCreate /\ UNCHANGED notStoreVars
    \/ StoreAddTurn /\ UNCHANGED notStoreVars
    \/ StoreDelete /\ UNCHANGED notStoreVars
    \/ StoreTick /\ UNCHANGED notStoreVars
SpecStore == InitStore /\ [][NextStore]_vars

InitPlanner ==
    /\ CoreParked
    /\ BreakerParked /\ StoreInit /\ PlannerInit /\ TxParked /\ LifecycleParked /\ ExtrasParked
notPlannerVars == <<coreVars, breakerVars, txVars, lifecycleVars, extraVars>>
NextPlanner ==
    \/ PlanChat /\ UNCHANGED notPlannerVars
    \/ PlanRetrieve /\ UNCHANGED notPlannerVars
    \/ PlanRespond /\ UNCHANGED notPlannerVars
SpecPlanner == InitPlanner /\ [][NextPlanner]_vars

InitTx ==
    /\ CoreParked
    /\ BreakerParked /\ StoreParked /\ PlannerParked /\ TxInit /\ LifecycleParked /\ ExtrasParked
notTxVars == <<coreVars, breakerVars, storeVars, plannerVars, lifecycleVars, extraVars>>
NextTx ==
    \/ TxEnter /\ UNCHANGED notTxVars
    \/ TxRequestRollback /\ UNCHANGED notTxVars
    \/ TxBodyRaise /\ UNCHANGED notTxVars
    \/ TxCatch /\ UNCHANGED notTxVars
    \/ TxExit /\ UNCHANGED notTxVars
SpecTx == InitTx /\ [][NextTx]_vars

InitLifecycle ==
    /\ CoreParked
    /\ BreakerParked /\ StoreParked /\ PlannerParked /\ TxParked /\ LifecycleInit /\ ExtrasParked
notLifecycleVars == <<coreVars, breakerVars, storeVars, plannerVars, txVars, extraVars>>
NextLifecycle ==
    \/ \E p \in LcCallers : LcCall(p) /\ UNCHANGED notLifecycleVars
    \/ \E p \in LcCallers : LcRead(p) /\ UNCHANGED notLifecycleVars
    \/ \E p \in LcCallers : LcUpdate(p) /\ UNCHANGED notLifecycleVars
    \/ \E p \in LcCallers : LcReturn(p) /\ UNCHANGED notLifecycleVars
SpecLifecycle == InitLifecycle /\ [][NextLifecycle]_vars

(***************************************************************************)
(* Properties of the router                                                *)
(***************************************************************************)
rt_enabled == check_feature_flags(rt_feature_flags)
rt_normalized == normalized_provider_status(rt_enabled, rt_provider_status)

\* The override names a provider that is disabled by feature flag or whose
\* snapshot status is 'unavailable' or 'degraded'
OverrideGated ==
    /\ rt_pc = "done"
    /\ rt_request.provider_override # Null
    /\ \/ ~InList(rt_request.provider_override, rt_enabled)
       \/ Get(rt_provider_status, rt_request.provider_override, AVAILABLE)
            \in {UNAVAILABLE, DEGRADED}

\* C1 as stated: a gated override provider is never the selected provider,
\* whatever the mode and the status of the other providers.
C1_GatedOverrideNeverSelected ==
    OverrideGated => rt_result.provider # rt_request.provider_override

\* C1 amended: a gated override is ignored, the call returns what normal mode
\* selection returns; the override provider itself is returned only as the
\* degraded fallback (enabled, 'degraded', no enabled provider 'available').
C1_GatedOverrideFallsThrough ==
    OverrideGated =>
        /\ rt_result = select_route(rt_request.mode, rt_enabled, rt_normalized)
        /\ rt_result.provider = rt_request.provider_override =>
            /\ InList(rt_request.provider_override, rt_enabled)
            /\ rt_normalized[rt_request.provider_override] = DEGRADED
            /\ \A i \in DOMAIN rt_enabled : rt_normalized[rt_enabled[i]] # AVAILABLE

\* A degraded override was rejected and another provider was selected
C1_Witness ==
    /\ OverrideGated
    /\ Get(rt_provider_status, rt_request.provider_override, AVAILABLE) = DEGRADED
    /\ InList(rt_request.provider_override, rt_enabled)
    /\ rt_result.provider \notin {rt_request.provider_override, "none"}

\* C2: the returned options satisfy skip_external_rerank == (provider == "mem0")
\* on every path of route_retrieval.
C2_SkipRerankIffMem0 ==
    rt_pc = "done" =>
        (rt_result.skip_external_rerank <=> (rt_result.provider = "mem0"))

\* mem0 was selected through an accepted override
C2_Witness ==
    /\ rt_pc = "done"
    /\ rt_request.provider_override = "mem0"
    /\ rt_result.provider = "mem0"
    /\ rt_result.skip_external_rerank

\* the snapshot of the call with 'available' written out for every enabled
\* provider that has no entry
rt_explicit_status ==
    [p \in DOMAIN rt_provider_status \cup {q \in Providers : InList(q, rt_enabled)} |->
        IF p \in DOMAIN rt_provider_status THEN rt_provider_status[p] ELSE AVAILABLE]

\* C15: an enabled provider without an entry in the status snapshot is routed
\* exactly as if its status were 'available', by mode priority and by
\* override; an explicit 'unavailable' or 'degraded' keeps its status.
C15_MissingStatusIsAvailable ==
    rt_pc = "done" =>
        /\ rt_result = route_retrieval(rt_request, rt_explicit_status, rt_feature_flags)
        /\ \A p \in DOMAIN rt_provider_status :
            /\ rt_normalized[p] = rt_provider_status[p]
            /\ rt_provider_status[p] = UNAVAILABLE => rt_result.provider # p
            /\ (rt_provider_status[p] = DEGRADED /\ rt_result.provider = p) =>
                \A q \in Providers :
                    InList(q, rt_enabled) => Get(rt_provider_status, q, AVAILABLE) # AVAILABLE
        /\ \A p \in Providers :
            (/\ p \notin DOMAIN rt_provider_status
             /\ InList(p, rt_enabled)
             /\ rt_request.provider_override = p) => rt_result.provider = p

\* an override naming an enabled provider absent from the snapshot was
\* accepted while another provider was explicitly available
C15_Witness ==
    /\ rt_pc = "done"
    /\ rt_request.provider_override = "supabase"
    /\ "supabase" \notin DOMAIN rt_provider_status
    /\ "mem0" \in DOMAIN rt_provider_status
    /\ rt_provider_status["mem0"] = AVAILABLE
    /\ rt_result.provider = "supabase"

\* p is enabled by feature flag and its normalized status is 'available' or
\* 'degraded'
Usable(p) ==
    /\ InList(p, rt_enabled)
    /\ Get(rt_provider_status, p, AVAILABLE) \in {AVAILABLE, DEGRADED}

\* C16: route_retrieval returns 'none' iff no enabled provider has normalized
\* status 'available' or 'degraded'; otherwise it returns such a provider.
C16_NoneIffNoUsableProvider ==
    rt_pc = "done" =>
        /\ rt_result.provider = "none" <=> ~\E p \in Providers : Usable(p)
        /\ rt_result.provider # "none" =>
            (rt_result.provider \in Providers /\ Usable(rt_result.provider))

\* the only usable provider was degraded and was returned
C16_Witness ==
    /\ rt_pc = "done"
    /\ rt_result.provider = "supabase"
    /\ Get(rt_provider_status, "supabase", AVAILABLE) = DEGRADED
    /\ \A p \in Providers \ {"supabase"} : ~Usable(p)

(***************************************************************************)
(* Properties of the classifier                                            *)
(***************************************************************************)
db_packet == db_result.context_packet
db_action == db_result.next_action

LowConfidenceInput ==
    /\ db_pc = "done"
    /\ db_args.candidates # <<>>
    /\ db_args.candidates[1].confidence < db_args.threshold

\* C3: a non-empty list whose top confidence is below the threshold is always
\* classified LOW_CONFIDENCE with action clarify, for every provider and both
\* values of rerank_bypassed.
C3_LowConfidencePrecedence ==
    LowConfidenceInput =>
        /\ db_packet.summary.branch = LOW_CONFIDENCE
        /\ db_action.branch_code = LOW_CONFIDENCE
        /\ db_action.action = "clarify"

\* A below-threshold mem0 result with rerank bypassed was classified
C3_Witness ==
    /\ LowConfidenceInput
    /\ db_args.provider = "mem0"
    /\ db_args.rerank_bypassed
    /\ db_packet.summary.branch = LOW_CONFIDENCE

\* C5: RERANK_BYPASSED implies rerank_applied, LOW_CONFIDENCE and EMPTY_SET
\* imply not rerank_applied, in every classifier output.
C5_RerankAppliedByBranch ==
    db_pc = "done" =>
        /\ db_packet.summary.branch = RERANK_BYPASSED => db_packet.rerank_applied
        /\ db_packet.summary.branch \in {LOW_CONFIDENCE, EMPTY_SET}
            => ~db_packet.rerank_applied

\* The classifier emitted RERANK_BYPASSED
C5_Witness ==
    /\ db_pc = "done"
    /\ db_packet.summary.branch = RERANK_BYPASSED
    /\ db_packet.rerank_applied

(***************************************************************************)
(* Properties of the orchestrator                                          *)
(***************************************************************************)
rc_response == rc_result.response
RunReturnedResponse == rc_pc = "done" /\ rc_result.outcome = "return"

\* C4: in every classifier output and in every response of run (natural
\* classification, the provider 'none' path, the forced-branch path) the
\* next action carries the branch code of the packet summary.
C4_BranchActionPaired ==
    /\ db_pc = "done" => db_action.branch_code = db_packet.summary.branch
    /\ RunReturnedResponse =>
        rc_response.next_action.branch_code = rc_response.context_packet.summary.branch

\* run returned a forced CHANNEL_MISMATCH response
C4_Witness ==
    /\ RunReturnedResponse
    /\ rc_call.validation_mode
    /\ rc_call.force_branch = CHANNEL_MISMATCH
    /\ rc_response.context_packet.summary.branch = CHANNEL_MISMATCH
    /\ rc_response.next_action.branch_code = CHANNEL_MISMATCH

(***************************************************************************)
(* Properties of the migration runner                                      *)
(***************************************************************************)
LockedOp(p) == mg_run[p].op \in {"apply", "rollback"}

\* the run is at or past its read of the applied-migrations table and has not
\* yet finished its executor calls
InMigration(p) ==
    /\ LockedOp(p)
    /\ mg_run[p].pc \in {"read", "validate", "pending", "exec", "record",
                         "rb_select", "rb_exec", "rb_remove"}

\* C6: of the concurrent apply_pending / rollback_last runs sharing the
\* database, at most one is between its read of the applied table and its
\* last executor call.
C6_RunsNeverInterleave ==
    \A p, q \in Procs : p # q => ~(InMigration(p) /\ InMigration(q))

\* one run is applying while a concurrent run was refused the lock
C6_Witness ==
    \E p, q \in Procs :
        /\ p # q
        /\ mg_run[p].pc = "record"
        /\ LockedOp(q)
        /\ mg_run[q].outcome = "lock_failed"

\* process p performs an executor call on the database in this step
ExecutorCall(p) ==
    \/ ~mg_run[p].has_read /\ mg_run'[p].has_read
    \/ Len(mg_run'[p].executed) > Len(mg_run[p].executed)
    \/ Len(mg_run'[p].recorded) > Len(mg_run[p].recorded)
    \/ Len(mg_run'[p].removed) > Len(mg_run[p].removed)
    \/ mg_run[p].pc \in {"exec", "record", "rb_exec", "rb_remove"}
        /\ mg_run'[p].pc = "finally"

\* C7: in apply_pending (not dry run) and rollback_last the table is read and
\* every execute_sql, record_migration and remove_migration_record call is
\* made while the run holds the advisory lock.
C7_ExecutorCallsUnderLock ==
    [][\A p \in Procs :
        (LockedOp(p) /\ ExecutorCall(p))
            => (mg_run[p].lock_acquired /\ mg_lock = p /\ mg_lock' = p)]_vars

\* a run that holds the lock has recorded one migration and executes the next
C7_Witness ==
    \E p \in Procs :
        /\ mg_run[p].op = "apply"
        /\ mg_run[p].pc = "record"
        /\ Len(mg_run[p].recorded) = 1
        /\ Len(mg_run[p].executed) = 2
        /\ mg_lock = p

\* C8: a call that acquired the lock has released it by the time it returns
\* or raises, and a call that did not acquire it never releases it.
C8_LockReleasedOnExit ==
    \A p \in Procs :
        /\ (mg_run[p].pc = "done" /\ mg_run[p].lock_acquired)
            => (mg_run[p].released /\ mg_lock # p)
        /\ mg_run[p].released => mg_run[p].lock_acquired

\* a run that raised SchemaError after taking the lock has released it
C8_Witness ==
    \E p \in Procs :
        /\ mg_run[p].pc = "done"
        /\ mg_run[p].outcome = "raised"
        /\ mg_run[p].error \in {"SCHEMA_DRIFT", "NO_ROLLBACK_SQL"}
        /\ mg_run[p].lock_acquired
        /\ mg_run[p].released
        /\ mg_lock = Free

\* drift items of the records a run read, against the files on disk
DriftOf(p) == detect_drift(scan_migrations(mg_files).list, mg_run[p].applied)

CriticalDrift(p) ==
    /\ mg_run[p].has_read
    /\ scan_migrations(mg_files).error = Null
    /\ \E i \in DOMAIN DriftOf(p) : DriftOf(p)[i].drift_type \in {"modified", "unexpected"}

\* C9: when the applied records show modified or unexpected drift,
\* apply_pending raises SchemaError SCHEMA_DRIFT, executes no SQL and records
\* nothing, even with pending migrations.
C9_DriftAbortsApply ==
    \A p \in Procs :
        (mg_run[p].op = "apply" /\ CriticalDrift(p)) =>
            /\ mg_run[p].executed = <<>>
            /\ mg_run[p].recorded = <<>>
            /\ mg_run[p].pc \in {"validate", "finally", "done"}
            /\ mg_run[p].pc \in {"finally", "done"} =>
                (mg_run[p].outcome = "raised" /\ mg_run[p].error = "SCHEMA_DRIFT")

\* an apply run with pending migrations raised SCHEMA_DRIFT
C9_Witness ==
    \E p \in Procs :
        /\ mg_run[p].op = "apply"
        /\ CriticalDrift(p)
        /\ get_pending(mg_files, mg_run[p].applied).list # <<>>
        /\ mg_run[p].pc = "done"
        /\ mg_run[p].error = "SCHEMA_DRIFT"

\* C10: validate_schema_integrity raises SCHEMA_DRIFT exactly when drift
\* detection yields a modified or unexpected item; with only missing items,
\* or none, it returns normally.
C10_ValidateRaisesIffCritical ==
    \A p \in Procs :
        mg_run[p].integrity # "unchecked" =>
            /\ mg_run[p].integrity = "SCHEMA_DRIFT" <=> CriticalDrift(p)
            /\ (scan_migrations(mg_files).error = Null /\ ~CriticalDrift(p))
                => mg_run[p].integrity = "ok"

\* validation raised for drift that consists of unexpected records only
C10_Witness ==
    \E p \in Procs :
        /\ mg_run[p].integrity = "SCHEMA_DRIFT"
        /\ \A i \in DOMAIN DriftOf(p) : DriftOf(p)[i].drift_type # "modified"

rc_metadata == rc_response.routing_metadata
rc_branch == rc_response.context_packet.summary.branch
\* the provider route_retrieval selects for the current run
rc_routed ==
    route_retrieval(rc_call.request, rc_self.provider_status, rc_self.feature_flags).provider
\* what determine_branch gives for the candidates the response carries
NaturalOutcome ==
    determine_branch(rc_response.context_packet.candidates, rc_call.request.threshold,
                     rc_metadata.skip_external_rerank, rc_metadata.selected_provider)

\* C17: a response has branch CHANNEL_MISMATCH only when run was called with
\* validation_mode and force_branch = CHANNEL_MISMATCH; determine_branch never
\* produces it, and a force_branch without validation_mode is ignored.
C17_ChannelMismatchOnlyForced ==
    /\ db_pc = "done" => db_packet.summary.branch # CHANNEL_MISMATCH
    /\ RunReturnedResponse =>
        /\ rc_branch = CHANNEL_MISMATCH =>
            (rc_call.validation_mode /\ rc_call.force_branch = CHANNEL_MISMATCH)
        /\ ~rc_call.validation_mode =>
            /\ ~rc_metadata.validation_mode
            /\ rc_metadata.forced_branch = Null
            /\ rc_response.context_packet = NaturalOutcome.context_packet
            /\ rc_response.next_action = NaturalOutcome.next_action

\* CHANNEL_MISMATCH was passed without validation_mode and the candidates
\* were classified SUCCESS
C17_Witness ==
    /\ RunReturnedResponse
    /\ ~rc_call.validation_mode
    /\ rc_call.force_branch = CHANNEL_MISMATCH
    /\ rc_call.found # <<>>
    /\ rc_branch = SUCCESS

\* C18: when the routed provider is mem0 the external rerank service is never
\* invoked, whatever the candidates and the external_rerank_enabled flag, and
\* the response reports rerank_type 'provider-native'.
C18_Mem0NeverExternallyReranked ==
    (rc_pc = "done" /\ rc_routed = "mem0") =>
        /\ ~rc_result.rerank_called
        /\ RunReturnedResponse =>
            /\ rc_metadata.selected_provider = "mem0"
            /\ rc_metadata.rerank_type = "provider-native"

\* mem0 returned two candidates with the external rerank enabled in the
\* flags and in the service, and the service was not invoked
C18_Witness ==
    /\ RunReturnedResponse
    /\ rc_routed = "mem0"
    /\ Len(rc_call.found) = 2
    /\ rc_self.rerank_service.enabled
    /\ rc_self.feature_flags["external_rerank_enabled"]
    /\ ~rc_result.rerank_called
    /\ rc_metadata.rerank_type = "provider-native"

\* C19: whenever a run with a routed provider does not apply the external
\* rerank (skip_external_rerank, no candidates, or external_rerank_enabled
\* false), routing_metadata.rerank_bypass_reason is not null.
C19_BypassReasonRecorded ==
    (RunReturnedResponse /\ rc_metadata.selected_provider # "none"
        /\ ~rc_result.rerank_called)
        => rc_metadata.rerank_bypass_reason # Null

\* C20: when a provider is routed and only the provider adapter fails (the
\* search call raises, the client is unavailable, the embedding fails), run
\* returns a response carrying one of the five branch codes and does not raise.
C20_AdapterFailureAbsorbed ==
    (/\ rc_pc = "done"
     /\ rc_routed # "none"
     /\ rc_call.fault = "none"
     /\ rc_call.adapter \in AdapterFailures) =>
        /\ rc_result.outcome = "return"
        /\ rc_branch \in BranchCodes
        /\ rc_response.next_action.branch_code = rc_branch

\* the mem0 search call raised during a conversation run and the response was
\* built from the fallback candidates
C20_Witness ==
    /\ RunReturnedResponse
    /\ rc_routed = "mem0"
    /\ rc_call.adapter = "provider_error"
    /\ rc_call.fault = "none"
    /\ Len(rc_call.found) = 2
    /\ rc_branch = RERANK_BYPASSED

\* the ascending sequence of the numbers in S
RECURSIVE Ascending(_)
Ascending(S) ==
    IF S = {} THEN <<>>
    ELSE LET least == CHOOSE v \in S : \A w \in S : v <= w
         IN <<least>> \o Ascending(S \ {least})

IsPrefix(s, t) == Len(s) <= Len(t) /\ \A i \in DOMAIN s : s[i] = t[i]

\* versions on disk that are not among the records the run read, ascending
PendingVersions(p) ==
    Ascending({f.version : f \in mg_files}
              \ {mg_run[p].applied[i].version : i \in DOMAIN mg_run[p].applied})

ExecutedVersions(p) == [i \in DOMAIN mg_run[p].executed |-> mg_run[p].executed[i].version]

\* C12: the migrations one apply_pending run executed and recorded are a
\* version-ordered prefix of its pending list, each recorded before the next
\* is executed; the run stops at the first execute_sql failure, the failing
\* migration is not recorded and the earlier ones stay recorded.
C12_AppliedIsOrderedPrefix ==
    \A p \in Procs :
        mg_run[p].op = "apply" =>
            LET full == PendingVersions(p)
                ex == ExecutedVersions(p)
                rec == mg_run[p].recorded
                failed == mg_run[p].failed
            IN /\ IsPrefix(ex, full)
               /\ IsPrefix(rec, ex)
               /\ Len(ex) <= Len(rec) + 1
               /\ mg_run[p].applied_list = rec
               /\ mg_run[p].outcome = "success" => rec = full
               /\ failed # 0 =>
                    /\ Len(rec) < Len(full)
                    /\ failed = full[Len(rec) + 1]
                    /\ ex = rec
                    /\ mg_run[p].outcome = "failure"
                    /\ mg_run[p].pc \in {"finally", "done"}
               /\ mg_lock = p =>
                    /\ \A i \in DOMAIN rec : mg_table[rec[i]] # NoRecord
                    /\ failed # 0 => mg_table[failed] = NoRecord

\* a run recorded version 1, failed on version 2 and returned
C12_Witness ==
    \E p \in Procs :
        /\ mg_run[p].op = "apply"
        /\ mg_run[p].pc = "done"
        /\ mg_run[p].recorded = <<1>>
        /\ mg_run[p].failed = 2
        /\ mg_table[1] # NoRecord
        /\ mg_table[2] = NoRecord

\* versions that have a record in the applied-migrations table
RecordedVersions(table) == {v \in Versions : table[v] # NoRecord}

\* this step of rollback run p removes the record of the highest applied
\* version, whose rollback SQL the run has just executed without error
RemovesLastApplied(p) ==
    \E v \in RecordedVersions(mg_table) :
        /\ \A w \in RecordedVersions(mg_table) : w <= v
        /\ mg_table' = [mg_table EXCEPT ![v] = NoRecord]
        /\ mg_run[p].executed = <<[kind |-> "rollback", version |-> v]>>
        /\ mg_run'[p].removed = <<v>>
        /\ mg_run'[p].outcome = "success"

\* a finished or finishing rollback run that did not succeed removed nothing,
\* and while it holds the lock the records are the ones it read
RollbackLeavesRecords(p) ==
    /\ (mg_run[p].pc \in {"finally", "done"} /\ mg_run[p].outcome # "success")
        => mg_run[p].removed = <<>>
    /\ (mg_lock = p /\ mg_run[p].has_read /\ mg_run[p].removed = <<>>)
        => RecordedVersions(mg_table)
            = {mg_run[p].applied[i].version : i \in DOMAIN mg_run[p].applied}

\* C13: rollback_last removes a record only for the highest applied version
\* and only after its rollback SQL executed without error; on every other
\* outcome the run leaves the applied records unchanged.
C13_RollbackRemovesOnlyLast ==
    /\ [](\A p \in Procs : mg_run[p].op = "rollback" => RollbackLeavesRecords(p))
    /\ [][\A p \in Procs :
            (mg_run[p].op = "rollback" /\ mg_run'[p] # mg_run[p])
                => (mg_table' = mg_table \/ RemovesLastApplied(p))]_vars

\* a rollback removed the record of version 2 and left version 1 recorded
C13_Witness ==
    \E p \in Procs :
        /\ mg_run[p].op = "rollback"
        /\ mg_run[p].pc = "finally"
        /\ mg_run[p].outcome = "success"
        /\ mg_run[p].removed = <<2>>
        /\ mg_table[1] # NoRecord
        /\ mg_table[2] = NoRecord

\* a dry run has made no lock, SQL, record or removal call
DryRunMadeNoCall(p) ==
    /\ ~mg_run[p].lock_acquired
    /\ ~mg_run[p].released
    /\ mg_lock # p
    /\ mg_run[p].executed = <<>>
    /\ mg_run[p].recorded = <<>>
    /\ mg_run[p].removed = <<>>

\* C14: apply_pending(dry_run=True) acquires no lock, executes no SQL, records
\* and removes nothing; it returns, in version order, the migrations on disk
\* whose version is not among the applied records.
C14_DryRunOnlyReports ==
    /\ [](\A p \in Procs :
            mg_run[p].op = "dry_run" =>
                /\ DryRunMadeNoCall(p)
                /\ mg_run[p].outcome \in {"none", "success", "raised"}
                /\ mg_run[p].outcome = "success"
                    => mg_run[p].applied_list = PendingVersions(p))
    /\ [][\A p \in Procs :
            (mg_run[p].op = "dry_run" /\ mg_run'[p] # mg_run[p])
                => UNCHANGED <<mg_lock, mg_table, mg_schema>>]_vars

\* a dry run reported version 2 as pending while another run held the lock
C14_Witness ==
    \E p \in Procs :
        /\ mg_run[p].op = "dry_run"
        /\ mg_run[p].pc = "done"
        /\ mg_run[p].outcome = "success"
        /\ mg_run[p].applied_list = <<2>>
        /\ mg_lock \notin {Free, p}

(***************************************************************************)
(* Properties of drift detection                                           *)
(***************************************************************************)
\* indices of the returned drift items for version v
ItemsFor(v) == {i \in DOMAIN dd_result : dd_result[i].version = v}
InExpected(v) == \E i \in DOMAIN dd_args.expected : dd_args.expected[i].version = v
InApplied(v) == \E i \in DOMAIN dd_args.applied : dd_args.applied[i].version = v
SameChecksum(v) ==
    \E i \in DOMAIN dd_args.expected, j \in DOMAIN dd_args.applied :
        /\ dd_args.expected[i].version = v
        /\ dd_args.applied[j].version = v
        /\ dd_args.expected[i].checksum = dd_args.applied[j].checksum
OneItem(v, drift_type) ==
    /\ Cardinality(ItemsFor(v)) = 1
    /\ \A i \in ItemsFor(v) : dd_result[i].drift_type = drift_type

\* C11: detect_drift emits exactly one 'missing' item per version only in
\* expected, one 'unexpected' item per version only in applied, one
\* 'modified' item per version in both with differing checksums, nothing for
\* a version in both with equal checksums, and never two items for a version.
C11_DriftClassification ==
    dd_pc = "done" =>
        /\ \A i \in DOMAIN dd_result : InExpected(dd_result[i].version)
                                        \/ InApplied(dd_result[i].version)
        /\ \A v \in Versions :
            /\ Cardinality(ItemsFor(v)) <= 1
            /\ (InExpected(v) /\ ~InApplied(v)) => OneItem(v, "missing")
            /\ (~InExpected(v) /\ InApplied(v)) => OneItem(v, "unexpected")
            /\ (InExpected(v) /\ InApplied(v) /\ ~SameChecksum(v)) => OneItem(v, "modified")
            /\ (InExpected(v) /\ InApplied(v) /\ SameChecksum(v)) => ItemsFor(v) = {}

\* one call reported a modified migration together with an unexpected record
C11_Witness ==
    /\ dd_pc = "done"
    /\ \E i \in DOMAIN dd_result : dd_result[i].drift_type = "modified"
    /\ \E i \in DOMAIN dd_result : dd_result[i].drift_type = "unexpected"

\* the call of this run that raises was reached: the search of a routed
\* provider, or the external rerank of the candidates found
ExceptionEscaped ==
    /\ rc_pc = "done"
    /\ rc_routed # "none"
    /\ \/ rc_call.fault = "search"
       \/ /\ rc_call.fault = "rerank"
          /\ rc_routed # "mem0"
          /\ rc_call.found # <<>>
          /\ Get(rc_self.feature_flags, "external_rerank_enabled", TRUE)

\* C21: when an exception escapes a step of run, run records one error trace
\* if a trace collector is attached and raises RetrievalError with retry_hint
\* true, chained to the original exception, whose context holds the query
\* length, the provider of the request and the original error type.
C21_FailureWrapped ==
    ExceptionEscaped =>
        /\ rc_result.outcome = "raise"
        /\ rc_result.error = "RetrievalError"
        /\ rc_result.retry_hint
        /\ rc_result.cause = rc_call.exc
        /\ rc_result.context =
                [original_error_type |-> rc_call.exc,
                 provider |-> rc_call.request.provider_override,
                 query_length |-> Len(rc_call.request.query)]
        /\ rc_traces = IF rc_self.has_collector
                       THEN <<ErrorTrace(rc_call.exc)>> ELSE <<>>

\* the external rerank of two supabase candidates raised ProviderError in a
\* run with a collector and a two-character query
C21_Witness ==
    /\ ExceptionEscaped
    /\ rc_call.fault = "rerank"
    /\ rc_call.exc = "ProviderError"
    /\ rc_self.has_collector
    /\ rc_call.request.provider_override = "supabase"
    /\ Len(rc_call.found) = 2
    /\ rc_call.request.mode = "fast"
    /\ rc_result.context.query_length = 2
    /\ rc_result.rerank_called
    /\ Len(rc_traces) = 1

C28_SuccessRerankFlag ==
    (db_pc = "done" /\ db_packet.summary.branch = SUCCESS) =>
        /\ db_args.provider # "mem0" => (db_packet.rerank_applied = ~db_args.rerank_bypassed)
        /\ (db_args.provider = "mem0" /\ ~db_args.rerank_bypassed)
                => ~db_packet.rerank_applied

(***************************************************************************)
(* Properties of the circuit breaker                                       *)
(***************************************************************************)
\* C25: whatever the interleaving of the callers, the state of the breaker
\* changes only from CLOSED to OPEN on a failure that brings failure_count to
\* failure_threshold, from OPEN to HALF_OPEN on a can_execute after the
\* recovery timeout, from HALF_OPEN to CLOSED on a success and from HALF_OPEN
\* to OPEN on a failure.
C25_BreakerTransitions ==
    [][cb_self'.state # cb_self.state =>
        \/ /\ cb_self.state = CLOSED /\ cb_self'.state = OPEN
           /\ cb_last'.op = "record_failure"
           /\ cb_self'.failure_count >= cb_self.failure_threshold
        \/ /\ cb_self.state = OPEN /\ cb_self'.state = HALF_OPEN
           /\ cb_last'.op = "can_execute"
           /\ cb_self.since_failure = "elapsed"
        \/ /\ cb_self.state = HALF_OPEN /\ cb_self'.state = CLOSED
           /\ cb_last'.op = "record_success"
        \/ /\ cb_self.state = HALF_OPEN /\ cb_self'.state = OPEN
           /\ cb_last'.op = "record_failure"]_vars

\* C26: at most one caller admitted on entering or in HALF_OPEN has its
\* operation in flight.
C26_OneProbeInFlight ==
    cb_self # <<>> => Cardinality({t \in Callers : cb_callers[t] = "probe"}) <= 1

(***************************************************************************)
(* Properties of the conversation store                                    *)
(***************************************************************************)
IdsOf(sessions) == {sessions[i].session_id : i \in DOMAIN sessions}

SessionOf(sessions, id) == sessions[SessionIndex(sessions, id)]

\* a step that stored a session which was not there before
SessionCreated == IdsOf(cs_self'.sessions) \ IdsOf(cs_self.sessions) # {}

\* the sessions that were stored before the step and are gone after it
Evicted == IdsOf(cs_self.sessions) \ IdsOf(cs_self'.sessions)

\* C27: the store never holds more than max_sessions sessions, and when a
\* creation evicts sessions, no evicted session was active later than a
\* session that the store keeps.
C27_SessionLimit ==
    /\ [](cs_self # <<>> => Len(cs_self.sessions) <= cs_self.max_sessions)
    /\ [][SessionCreated =>
            \A e \in Evicted : \A k \in IdsOf(cs_self'.sessions) :
                SessionOf(cs_self.sessions, e).last_active
                    <= SessionOf(cs_self'.sessions, k).last_active]_vars

\* a creation at the limit has just evicted the session inserted last, whose
\* last_active was the oldest, and kept the session inserted first
C27_Witness ==
    /\ cs_self # <<>>
    /\ cs_self.max_sessions = 2
    /\ cs_last = [op |-> "get_or_create", session_id |-> "s3", evicted |-> {"s2"}]
    /\ Len(cs_self.sessions) = 2
    /\ cs_self.sessions[1].session_id = "s1"
    /\ cs_self.sessions[1].last_active = 2
    /\ cs_self.sessions[2] = ConversationState("s3", 3)

(***************************************************************************)
(* Properties of the transaction manager                                   *)
(***************************************************************************)
\* C29: once the outermost transaction() block has exited, by commit, by an
\* exception or by a manual rollback, the state is active = false, depth = 0
\* and savepoints = [], whatever savepoint operations failed in nested blocks.
C29_StateClearedAfterOutermost ==
    (tx_state # <<>> /\ tx_frames = <<>> /\ tx_last.outermost
        /\ tx_last.exit \in {"completed", "manual_rollback", "rolled_back"})
    => tx_state = TransactionState

(***************************************************************************)
(* Properties of the chunk lifecycle service                               *)
(***************************************************************************)
\* C30: whatever the interleaving of transition calls, the stored status of
\* a chunk changes only along an edge of VALID_TRANSITIONS, and a call that
\* raises ChunkLifecycleError changes no stored status.
C30_OnlyValidEdges ==
    [][/\ \A c \in Chunks :
            lc_store'[c] # lc_store[c] => <<lc_store[c], lc_store'[c]>> \in VALID_TRANSITIONS
       /\ \A p \in LcCallers :
            (lc_procs[p].pc = "read" /\ lc_procs'[p].raised # Null) => lc_store' = lc_store]_vars

(***************************************************************************)
(* Properties of the planner                                               *)
(***************************************************************************)
\* the turns stored for the session of a chat call
TurnsOf(call) == SessionOf(cs_self.sessions, call.session_id).turns

Last(seq) == seq[Len(seq)]

ChatEnded == pl_pc = "idle" /\ pl_result.outcome # Null

\* C23 as stated: whenever a chat call has ended, the turns of its session
\* end with the user turn of the call followed by an assistant turn.
C23_TurnsAfterEveryChat ==
    ChatEnded =>
        LET turns == TurnsOf(pl_result.call)
        IN /\ Len(turns) >= 2
           /\ turns[Len(turns) - 1] = UserTurn(pl_result.call.query)
           /\ Last(turns).role = "assistant"

\* C23 amended: during retrieval and formatting the last turn of the session
\* is the user turn of the call; a chat that returns a response, the fallback
\* for a failed retrieval included, leaves the assistant turn of that response
\* last, preceded by the user turn of the call when the store keeps at least
\* two turns per session; a chat left by an exception leaves the user turn
\* last.
C23_TurnsOfChat ==
    /\ pl_pc \in {"retrieving", "formatted"} =>
            Last(TurnsOf(pl_call)) = UserTurn(pl_call.query)
    /\ (ChatEnded /\ pl_result.outcome = "return") =>
            LET turns == TurnsOf(pl_result.call)
            IN /\ Last(turns) = AssistantTurn(pl_result.response)
               /\ cs_self.max_turns >= 2 =>
                    /\ Len(turns) >= 2
                    /\ turns[Len(turns) - 1] = UserTurn(pl_result.call.query)
    /\ (ChatEnded /\ pl_result.outcome = "raise") =>
            Last(TurnsOf(pl_result.call)) = UserTurn(pl_result.call.query)

\* a chat whose request was rejected has returned the fallback, and the
\* session ends with its user turn and the assistant turn of the fallback
C23_Witness ==
    /\ ChatEnded
    /\ pl_result.outcome = "return"
    /\ pl_result.error = "ValidationError"
    /\ pl_result.call.session_id = "s1"
    /\ cs_self.max_turns = 2
    /\ TurnsOf(pl_result.call) =
            <<UserTurn("q2"), AssistantTurn(format_retrieval_error("s1"))>>

\* C24: an exception of the retrieval call becomes the returned response
\* RETRIEVAL_ERROR / fallback, with an error trace when a collector is
\* attached, exactly when it is a SecondBrainError or a ValidationError; any
\* other exception reaches the caller of chat as it was raised, and a chat
\* without an exception never answers RETRIEVAL_ERROR.
C24_RetrievalErrorHandling ==
    ChatEnded =>
        LET exc == pl_result.error
            recognised == IsInstance(exc, "SecondBrainError") \/ IsInstance(exc, "ValidationError")
            converted ==
                /\ pl_result.outcome = "return"
                /\ pl_result.response =
                        PlannerResponse(<<"retrieval issue">>, "fallback", "RETRIEVAL_ERROR",
                                        pl_result.call.session_id)
                /\ pl_result.traces =
                        IF pl_self.has_collector THEN <<PlannerErrorTrace(exc)>> ELSE <<>>
        IN IF exc = Null
           THEN /\ pl_result.outcome = "return"
                /\ pl_result.response.branch_code # "RETRIEVAL_ERROR"
                /\ pl_result.traces = <<>>
           ELSE /\ recognised <=> converted
                /\ ~recognised <=> (pl_result.outcome = "raise" /\ pl_result.response = Null)

\* a RetrievalError, a subclass of SecondBrainError, was converted and traced
C24_Witness ==
    /\ ChatEnded
    /\ pl_self.has_collector
    /\ pl_result.outcome = "return"
    /\ pl_result.error = "RetrievalError"
    /\ pl_result.response.branch_code = "RETRIEVAL_ERROR"
    /\ pl_result.response.action_taken = "fallback"
    /\ pl_result.traces = <<PlannerErrorTrace("RetrievalError")>>

\* a KeyError of the retrieval call has left chat
C24_WitnessPropagated ==
    /\ ChatEnded
    /\ pl_result.outcome = "raise"
    /\ pl_result.error = "KeyError"

(***************************************************************************)
(* Further properties of the classifier                                    *)
(***************************************************************************)
\* the greatest confidence in a non-empty candidate list
MaxConfidence(candidates) ==
    CHOOSE m \in {candidates[i].confidence : i \in DOMAIN candidates} :
        \A i \in DOMAIN candidates : candidates[i].confidence <= m

\* C33: in every packet of the classifier top_confidence is the greatest
\* confidence among its candidates, so LOW_CONFIDENCE is emitted only when
\* every candidate is below the threshold.
C33_TopIsMaximum ==
    (db_pc = "done" /\ db_args.candidates # <<>>) =>
        /\ db_packet.summary.top_confidence = MaxConfidence(db_packet.candidates)
        /\ db_packet.summary.branch = LOW_CONFIDENCE =>
                \A i \in DOMAIN db_args.candidates :
                    db_args.candidates[i].confidence < db_args.threshold

\* C34: in every packet of the classifier threshold_met says whether
\* top_confidence reaches the threshold of the call; it is true for SUCCESS
\* and RERANK_BYPASSED, false for LOW_CONFIDENCE and EMPTY_SET.
C34_ThresholdMet ==
    db_pc = "done" =>
        /\ db_args.candidates # <<>> =>
                (db_packet.summary.threshold_met
                    <=> db_packet.summary.top_confidence >= db_args.threshold)
        /\ db_packet.summary.branch \in {SUCCESS, RERANK_BYPASSED}
                => db_packet.summary.threshold_met
        /\ db_packet.summary.branch \in {LOW_CONFIDENCE, EMPTY_SET}
                => ~db_packet.summary.threshold_met

(***************************************************************************)
(* Further properties of the router                                        *)
(***************************************************************************)
\* p is enabled by feature flag and its normalized status is 'available'
EnabledAvailable(p) == InList(p, rt_enabled) /\ rt_normalized[p] = AVAILABLE

\* C35: when an enabled provider is 'available' the provider returned is
\* enabled and 'available', in every mode and with or without an override; a
\* 'degraded' provider is returned only when no enabled provider is
\* 'available'.
C35_AvailablePreferred ==
    rt_pc = "done" =>
        /\ (\E p \in Providers : EnabledAvailable(p)) =>
                (rt_result.provider \in Providers /\ EnabledAvailable(rt_result.provider))
        /\ (/\ rt_result.provider \in Providers
            /\ Get(rt_normalized, rt_result.provider, AVAILABLE) = DEGRADED) =>
                ~\E p \in Providers : EnabledAvailable(p)

\* conversation mode found neither mem0 nor supabase available and the
\* fallback pass returned graphiti, available, rather than degraded supabase
C35_Witness ==
    /\ rt_pc = "done"
    /\ rt_request.mode = "conversation"
    /\ rt_request.provider_override = "supabase"
    /\ InList("supabase", rt_enabled)
    /\ rt_normalized["supabase"] = DEGRADED
    /\ InList("mem0", rt_enabled)
    /\ rt_normalized["mem0"] = UNAVAILABLE
    /\ "graphiti" \notin DOMAIN rt_provider_status
    /\ rt_result.provider = "graphiti"

(***************************************************************************)
(* Further properties of the migration runner                              *)
(***************************************************************************)
\* the versions whose forward SQL run p executed without error
ForwardExecuted(p) ==
    {mg_run[p].executed[i].version :
        i \in {j \in DOMAIN mg_run[p].executed : mg_run[p].executed[j].kind = "forward"}}

\* C36: when an apply_pending call returns or raises, every migration whose
\* forward SQL it executed without error is recorded as applied.
C36_ExecutedIsRecorded ==
    \A p \in Procs :
        (mg_run[p].op = "apply" /\ mg_run[p].pc \in {"finally", "done"}) =>
            \A v \in ForwardExecuted(p) : InList(v, mg_run[p].recorded)

\* C37: rollback_last executes rollback SQL only from a file whose checksum
\* equals the checksum stored in the applied record of that version, and with
\* 'modified' or 'unexpected' drift in the applied records it raises
\* SchemaError and executes nothing.
C37_RollbackVerifiesFile ==
    \A p \in Procs :
        (mg_run[p].op = "rollback" /\ mg_run[p].has_read) =>
            /\ \A i \in DOMAIN mg_run[p].executed :
                    \E f \in mg_files :
                        /\ f.version = mg_run[p].executed[i].version
                        /\ f.checksum = ByVersion(mg_run[p].applied, f.version).checksum
            /\ CriticalDrift(p) =>
                    /\ mg_run[p].executed = <<>>
                    /\ mg_run[p].pc \in {"finally", "done"} => mg_run[p].outcome = "raised"

(***************************************************************************)
(* Further properties of the circuit breaker                               *)
(***************************************************************************)
ProbeOutstanding == \E t \in Callers : cb_callers[t] = "probe"

\* C32: after record_success, record_failure, transition_to_half_open or
\* reset has returned the probe-active flag is false, and the flag is true
\* only while an admitted HALF_OPEN probe is outstanding.
C32_FlagResetByTransitions ==
    cb_self # <<>> =>
        /\ cb_last.op \in {"record_success", "record_failure",
                           "transition_to_half_open", "reset"}
                => ~cb_self.half_open_probe_active
        /\ cb_self.half_open_probe_active => ProbeOutstanding

\* C39: a can_execute call made while the breaker is HALF_OPEN and no
\* admitted probe is outstanding returns true, after any sequence of calls.
C39_HalfOpenAdmitsProbe ==
    [][\A t \in Callers :
        (/\ cb_self.state = HALF_OPEN
         /\ ~ProbeOutstanding
         /\ cb_last'.op = "can_execute"
         /\ cb_last'.caller = t
         /\ cb_callers[t] = "idle"
         /\ cb_self' = can_execute(cb_self).self)
            => cb_last'.returned]_vars

\* C38: an execute_with_retry call that started with the breaker OPEN and the
\* recovery timeout elapsed, and whose operation succeeds, invokes the
\* operation, returns its result and leaves the breaker CLOSED.
C38_ProbeCallSucceeds ==
    (/\ cp_run # <<>>
     /\ cp_run.pc = "done"
     /\ cp_run.ok
     /\ cp_run.started = [state |-> OPEN, since_failure |-> "elapsed"])
        => /\ cp_run.invoked
           /\ cp_run.outcome = "returned"
           /\ cb_self.state = CLOSED

(***************************************************************************)
(* Concurrent chat calls                                                   *)
(***************************************************************************)
\* C40: in every interleaving of concurrent chat calls on one store no call
\* ends with the missing-session error of add_turn: the session it looked up
\* or created is still stored when it appends its user and assistant turns.
C40_NoMissingSession ==
    ch_procs # <<>> =>
        \A c \in ChatCallers : ch_procs[c].outcome # "KeyError"

(***************************************************************************)
(* Concurrent chunk writes                                                 *)
(***************************************************************************)
\* both jobs have returned from write_chunk for the same content_hash, early
\* with the smaller updated_at
WrotePair(early, late) ==
    /\ cw_jobs[early].pc = "done"
    /\ cw_jobs[late].pc = "done"
    /\ cw_jobs[early].data.content_hash = cw_jobs[late].data.content_hash
    /\ cw_jobs[early].data.updated_at < cw_jobs[late].data.updated_at

====
